---- MODULE Spec2Model ----
(***************************************************************************)
(* Verification model of the Discord voice/auth bot.                       *)
(*                                                                         *)
(*   SpecSink  : voice/sink.py   VoiceSink  (audio thread vs event loop)   *)
(*   SpecAuth  : cogs/auth_cog.py save queue, worker thread, store,        *)
(*               blacklist commands, guild join/remove                     *)
(*   SpecPerm  : cogs/auth_cog.py check_command_permission                 *)
(*   SpecVoice : voice/handler.py + cogs/voice_cog.py session registry     *)
(*                                                                         *)
(* Python threads interleave between bytecodes; each action below is one   *)
(* block of a method that runs without another thread observing a partial  *)
(* effect that matters to the modelled state.                              *)
(***************************************************************************)
EXTENDS Integers, Sequences, FiniteSets, TLC

\* ------------------------------------------------------------------------
\* Bounds
\* ------------------------------------------------------------------------
MaxFrames == 3      \* write() calls explored per behaviour
MaxClock == 6       \* last value of time.time() explored (seconds)
MaxPolicyOps == 2   \* listening-policy changes explored per behaviour
MaxQueue == 3       \* longest save queue explored
MaxTasks == 6       \* task ids handed out per behaviour
MaxEvents == 2      \* undelivered voice-state updates held at once
MaxLeaves == 2      \* leave_channel invocations explored per behaviour
MaxWords == 4       \* words in one transcript
MaxBoots == 3       \* process starts explored per behaviour
MaxStamp == 4       \* snapshots taken per behaviour
MaxSpoken == 4      \* segments that become ready in one session
MaxContent == 4     \* distinct contents written to the store per behaviour
MaxSpeaks == 3      \* speak requests explored per behaviour
MaxAtoms == 5       \* words and separators in one transcript text
MaxUpdates == 1     \* undelivered voice-state updates of the bot held at once
MaxReady == 1       \* on_ready events explored per behaviour
MaxFails == 2       \* store writes that raise per behaviour
MaxSegs == 3        \* segments handed off per behaviour
MaxSinks == 2       \* VoiceSink objects created per behaviour
MaxPending == 2     \* save operations queued when the shutdown begins
MaxWait == 4        \* seconds of waiting explored inside one blocking call

\* ------------------------------------------------------------------------
\* Program constants (voice/sink.py)
\* ------------------------------------------------------------------------
MIN_AUDIO_LENGTH == 48000
MAX_AUDIO_LENGTH == 960000
SILENCE_TIMEOUT == 1

\* Encodings of Python's None / missing dictionary key
NoUser == -1        \* write(user=None, ...)
NoBuf == 0          \* uid not in user_buffers
NoTime == -1        \* uid not in last_audio_time

Speakers == {1}                 \* ids of the users heard on the voice channel
OwnerIds == {1, 2}              \* ids that the claim command can designate
Uids == Speakers \cup {0}       \* buffer keys; 0 is the unknown speaker
PcmSizes == {0, 24000, 960000}  \* len(data.pcm) of a frame; 0 is "not data.pcm"
StartClock == 2                 \* time.time() at sink creation (epoch seconds are large)
MaxBufs == MaxFrames + 3        \* bytearray objects that can be allocated

VARIABLES
    \* --- VoiceHandler listening policy (voice/handler.py __init__)
    listening, owner_only, owner_id, blocked_users,
    \* --- VoiceSink fields
    user_buffers,       \* uid -> id of the bytearray object, NoBuf if no key
    buf_keys,           \* insertion order of user_buffers' keys
    last_audio_time,    \* uid -> timestamp, NoTime if no key
    processing,         \* set of uids
    packet_count,
    \* --- heap of bytearray objects: id -> sequence of frame ids
    bufs, nextBuf,
    policyOps,          \* number of policy changes made so far
    \* --- frames handed to write(): frame id -> len(data.pcm)
    frames, nextFrame,
    clock,              \* time.time()
    \* --- audio thread inside write()
    wPc, wUid, wFrame, wRef,
    \* --- event loop inside get_ready_segments()
    gPc, gNow, gKeys, gUid, gRef, gAudio, gReady,
    \* --- segments handed to _process_segment and not yet finished
    inflight,
    \* --- history
    accepted,           \* <<uid, frame id>> of every frame write() appended
    returned,           \* every segment get_ready_segments returned
    winOk,              \* no get_ready_segments call since the window opened
    winLen              \* uid -> buffer length at opening + PCM bytes written since

VARIABLES
    \* --- AuthCog (cogs/auth_cog.py)
    guilds,             \* keys of the guilds the bot is a member of (bot.guilds)
    admins,             \* auth_data["admins"]
    blacklisted,        \* auth_data["blacklisted"]: guild key -> set of user ids
    command_overrides,  \* auth_data["command_overrides"]: guild key -> command -> record
    save_queue,         \* _save_queue
    queued_save_ops,    \* _queued_save_ops
    deleted_guilds,     \* _deleted_guilds
    \* --- storage backend (AuthSQLiteStore)
    store_guild,        \* guild key -> [state, blacklisted] of <key>.db
    store_admins,       \* admins table of global.db
    \* --- save worker thread inside _save_worker_loop
    kPc, kOp, kLive, kVal,
    \* --- event loop inside on_guild_remove
    evPc, evGuild,
    \* --- last decision of check_command_permission
    lastCheck,
    \* --- history
    enqPending,         \* operations enqueued since the worker last finished them
    removed,            \* guilds removed and not joined again
    ownerActed,         \* the owner issued a blacklist-mutating command
    recording,          \* whether this behaviour keeps the three histories below
    qSnap,              \* per queued operation: its guild's list when it was queued
    kSnap,              \* the same for the operation in the worker's hands
    kSeen               \* the values the list of the worker's guild has had
                        \* since the worker took the operation from the queue,
                        \* until save_guild has read the list

authVars == <<guilds, admins, blacklisted, command_overrides, save_queue,
              queued_save_ops, deleted_guilds, store_guild, store_admins,
              kPc, kOp, kLive, kVal, evPc, evGuild, lastCheck, enqPending,
              removed, ownerActed, qSnap, kSnap, kSeen>>

sinkVars == <<listening, owner_only, owner_id, blocked_users, policyOps, user_buffers,
              buf_keys, last_audio_time, processing, packet_count, bufs,
              nextBuf, frames, nextFrame, clock, wPc, wUid, wFrame, wRef,
              gPc, gNow, gKeys, gUid, gRef, gAudio, gReady, inflight,
              accepted, returned, winOk, winLen>>

\* VoiceHandler / VoiceCog connection state of one guild
VARIABLES
    vcCur,              \* guild.voice_client: id of the live connection, 0 if none
    nextConn,           \* next connection id
    hasSink,            \* guild id in VoiceHandler.sinks
    taskReg,            \* VoiceHandler.tasks[guild]: task id, 0 if no entry
    keepReg,            \* VoiceHandler.keep_alive_tasks[guild]: task id, 0 if none
    segRunning,         \* _process_audio_loop tasks neither finished nor cancelled
    keepRunning,        \* _keep_alive_loop tasks neither finished nor cancelled
    nextTask,           \* next task id
    manual_disconnect,  \* VoiceHandler.manual_disconnect
    vsEvents,           \* undelivered voice-state updates of the bot leaving a channel
    leavePc,            \* leave_channel: "idle" | "sending"
    joinPc,             \* join_channel: "idle" | "greeting"
    rejoins,            \* _attempt_rejoin coroutines in their sleep, by cause
    rejoinStarted,      \* causes of the disconnections that started _attempt_rejoin
    lastPoller,         \* task that last called get_ready_segments
    lastPing,           \* task that last sent a keep-alive signal
    leaveCalls,         \* leave_channel invocations so far
    leaveOut            \* last leave_channel: "none" | "not_connected" | "pending" | "left"

voiceVars == <<vcCur, nextConn, hasSink, taskReg, keepReg, segRunning,
               keepRunning, nextTask, manual_disconnect, vsEvents, leavePc,
               joinPc, rejoins, rejoinStarted, lastPoller, lastPing, leaveCalls,
               leaveOut>>

\* TTSService.speak calls on one voice connection
VARIABLES
    tConnected,     \* voice_client.is_connected()
    tPlaying,       \* request whose audio the voice client plays, 0 if none
    tEnded,         \* requests whose player ended, after-callback not yet run
    tNext,          \* next speak request to be invoked
    tPc,            \* request -> "idle" | "gen" | "waiting" | "done"
    tFile,          \* request -> "none" | "ok" | "empty": its temp file
    tCreated,       \* requests whose temp file was created
    tErr,           \* request -> the player reported an error
    tResult,        \* request -> "none" | "true" | "false"
    tFail,          \* request -> why speak returned False
    tOverlap        \* requests invoked while an earlier one had not returned

ttsVars == <<tConnected, tPlaying, tEnded, tNext, tPc, tFile, tCreated, tErr,
             tResult, tFail, tOverlap>>

\* Reaction-role verification of one guild (AuthCog reaction listeners)
VARIABLES
    verified_users, \* auth_data["verified_users"]: guild key -> set of member ids
    rrRoles,        \* member -> mapped roles the member holds on Discord
    rrCache,        \* member -> member.roles as cached by the client
    rrReacted,      \* member -> emojis the member has on the verification message
    rrPc,           \* listener in flight: "idle" | "adding" | "removing"
    rrMember,       \* its member
    rrRole,         \* its role
    rrDone          \* the role request of the listener in flight: "no" | "ok" | "raised"

reactVars == <<verified_users, rrRoles, rrCache, rrReacted, rrPc, rrMember,
               rrRole, rrDone>>

\* The only-me lock and the global command check (setup_global_check)
VARIABLES
    only_me_user_id,    \* AuthCog.only_me_user_id, NoUser when None
    lastGate            \* the last dispatch: command, invoker, whether the invoker
                        \* was blacklisted, what global_auth_check returned
                        \* and whether the command body ran

gateVars == <<only_me_user_id, lastGate>>

\* One speaker's segments through VoiceHandler._process_segment
VARIABLES
    cSession,               \* the guild has a voice connection, sink and loop task
    cManual,                \* manual_disconnect
    current_voice_index,    \* index into MANGA_VOICES
    cProcessing,            \* the speaker is in sink.processing
    cPc,                    \* "idle" | "segment": a _process_segment task is running
    cText,                  \* the transcript of the segment, a sequence of words
    cOut                    \* what the last segment did: route taken, parser and AI
                            \* invoked, message sent, reply spoken

cmdVars == <<cSession, cManual, current_voice_index, cProcessing, cPc, cText, cOut>>

\* Process start and the auth database directory (main.py)
VARIABLES
    bPc,            \* "down" | "persisted" | "loaded" | "ready"
    storeDb,        \* content of the *.db files under the DB root, NoDb if none
    snaps,          \* snapshot directories of the backup root: [name, content, made]
    bStamp,         \* the clock of the next snapshot name
    nextContent,    \* the next content a save writes
    bBoots,         \* process starts so far
    atBoot,         \* at the last process start: the store's content, the
                    \* content of the snapshot made last, and the clock
    bLoaded         \* the content the auth store was opened on in this run

bootVars == <<bPc, storeDb, snaps, bStamp, nextContent, bBoots, atBoot, bLoaded>>

\* The wake-word tests applied to one transcript text
VARIABLES
    wkText,      \* the text returned by the transcription
    wkPc,        \* "heard" | "ignored" | "triggered" | "ack" | "parser"
    wkHas,       \* what _has_trigger returned
    wkCmd        \* command_text, the text handed on by _remove_trigger

wakeVars == <<wkText, wkPc, wkHas, wkCmd>>

\* The voice mute command of one guild
VARIABLES
    guild_members,  \* guild.members, in the order the cache iterates them
    in_voice,       \* the members whose member.voice is not None
    muted,          \* the members who are server-muted
    can_mute,       \* invoker.guild_permissions.mute_members
    muResp          \* the last command result: its kind and the display name in it

muteVars == <<guild_members, in_voice, muted, can_mute, muResp>>

\* VoiceHandler and VoiceCog over the guilds the bot is in
VARIABLES
    fConn,      \* guild -> guild.voice_client is connected
    fSinks,     \* guild -> "none" | "empty" | "audio": entry of VoiceHandler.sinks
                \* and whether its buffers hold audio
    fTasks,     \* guild -> entry of VoiceHandler.tasks (its task runs)
    fKeep,      \* guild -> entry of VoiceHandler.keep_alive_tasks (its task runs)
    fManual,    \* VoiceHandler.manual_disconnect, one flag for all guilds
    fUpdates,   \* undelivered voice-state updates of the bot: [guild, cause]
    fLeavePc,   \* guild -> leave_channel is "idle" | "sending"
    fRejoins,   \* the updates whose _attempt_rejoin is in its sleep
    fLeft,      \* guild -> a leave command ran since the guild's last join
    fLost,      \* guild -> the connection was lost and the rejoin failed
    fLoop,      \* _enforce_voice_connection_loop: "unstarted", the guild it
                \* visits next, "sleep" or "dead"
    fReady      \* on_ready events so far

fleetVars == <<fConn, fSinks, fTasks, fKeep, fManual, fUpdates, fLeavePc,
               fRejoins, fLeft, fLost, fLoop, fReady>>

\* Store writes that raise inside the save worker
VARIABLES
    kFails,         \* store writes that raised so far
    failedList,     \* the list carried by the guild write that raised last and
                    \* was not followed by a write of the key yet
    recovered       \* the first write after a failed one: the list of the
                    \* failed write and the list stored

failVars == <<kFails, failedList, recovered>>

\* Segments of one guild's session between hand-off and the release of the
\* speaker's processing mark
VARIABLES
    sgSink,     \* the sink registered in VoiceHandler.sinks for the guild
    sgMarks,    \* sink -> its processing set
    sgPc,       \* speak requester -> position; requester 0 is join_channel's
                \* greeting, the others are _process_segment tasks
    sgUser,     \* segment -> the user_id it was handed off with
    sgFrom,     \* segment -> the sink that handed it off
    sgPlaying,  \* the requester whose audio the voice client plays
    sgNext      \* the next segment task

segVars == <<sgSink, sgMarks, sgPc, sgUser, sgFrom, sgPlaying, sgNext>>

\* Shutdown of the save worker
VARIABLES
    sdQueue,    \* _save_queue: the operations and the None sentinel not yet taken
    sdWorker,   \* the worker thread: "get" | "write" | "exited"
    sdStop,     \* _save_worker_stop is set
    sdUnload,   \* cog_unload: "idle" | "join" | "worker_join" | "returned"
    sdFlush,    \* _flush_pending_saves: "idle" | "wait"
    sdWait,     \* seconds cog_unload has spent in its current blocking call
    sdFlushWait \* seconds since _flush_pending_saves began to wait

stopVars == <<sdQueue, sdWorker, sdStop, sdUnload, sdFlush, sdWait, sdFlushWait>>

\* The command-control view: the on/off toggles of one command under watch
VARIABLES
    tgCount,    \* 0: none under watch, 1: toggled on, 2: toggled on and off again
    tgGuild,    \* the guild and
    tgCmd,      \* the command under watch
    tgBase      \* invoker -> the permission decision before the first toggle

toggleVars == <<tgCount, tgGuild, tgCmd, tgBase>>

\* The backup root under concurrent snapshot creators
VARIABLES
    snRoot,     \* the names of the snapshot_* directories of the backup root
    snClock,    \* the stamp datetime.utcnow() gives next
    snKeep,     \* AUTH_DB_BACKUP_KEEP
    snPc,       \* creator -> "idle" | "stamped" | "renamed" | "listed"
    snTs,       \* creator -> the stamp of its snapshot
    snList      \* creator -> the names its directory listing returned

snapVars == <<snRoot, snClock, snKeep, snPc, snTs, snList>>

\* The startup bootstrap of the per-guild records
VARIABLES
    bsActive,   \* _active_guild_keys(): the guilds the bot is a member of
    bsMem,      \* _all_guild_keys(): the guild keys with in-memory data
    bsDisk,     \* store.list_guild_keys(): the guild keys with a backend record
    bsQueue,    \* _save_queue
    bsQueued,   \* _queued_save_ops
    bsDeleted,  \* _deleted_guilds
    bsPc,       \* on_ready: "start" | "orphans" | "done"
    bsOrphans,  \* orphan_keys not yet cleaned up
    bsWk,       \* the save worker: "get" | "global" | "check" | "write" | "finally"
    bsOp        \* the operation the worker holds

bsVars == <<bsActive, bsMem, bsDisk, bsQueue, bsQueued, bsDeleted, bsPc, bsOrphans,
            bsWk, bsOp>>

\* The voice moderation commands: mute, unmute, kick, timeout
VARIABLES
    mdPerms,    \* the speaker's guild_permissions among the three tested
    mdVoice,    \* the members with a voice state
    mdMuted,    \* the server-muted members
    mdTimed,    \* member -> the minutes of its timeout, 0 without one
    mdResp      \* the string the executor called last returned

modVars == <<mdPerms, mdVoice, mdMuted, mdTimed, mdResp>>

\* One voice session: the segmentation loop and its segment tasks
VARIABLES
    lpReady,    \* the speakers whose buffer holds a segment that is ready
    lpMarks,    \* sink.processing of the registered sink
    lpTask,     \* speaker -> the await its segment task is at, "none" without a task
    lpLoop,     \* the segmentation task: "running" | "cancelled"
    lpConnected,\* the voice client is connected and the sink registered
    lpSpoken,   \* the segments that have become ready
    lpCaught,   \* the speakers a task of whom has ended in the except clause
    lpDuring    \* the speakers handed off while another speaker's task ran

loopVars == <<lpReady, lpMarks, lpTask, lpLoop, lpConnected, lpSpoken, lpCaught, lpDuring>>

\* the components added at the end
endVars == <<snapVars, bsVars, modVars, loopVars>>

\* the components added last
tailVars == <<stopVars, toggleVars, endVars>>

\* the components added after the first nine
lateVars == <<wakeVars, muteVars, fleetVars, failVars, segVars, tailVars>>

vars == <<sinkVars, authVars, voiceVars, ttsVars, reactVars, gateVars, recording,
          cmdVars, bootVars, lateVars>>

\* the variables of the other components
outsideSink ==
    <<authVars, voiceVars, ttsVars, reactVars, gateVars, recording, cmdVars, bootVars, lateVars>>
outsideAuth ==
    <<sinkVars, voiceVars, ttsVars, reactVars, gateVars, recording, cmdVars, bootVars, lateVars>>
outsideVoice ==
    <<sinkVars, authVars, ttsVars, reactVars, gateVars, recording, cmdVars, bootVars, lateVars>>
outsideTts ==
    <<sinkVars, authVars, voiceVars, reactVars, gateVars, recording, cmdVars, bootVars, lateVars>>
outsideReact ==
    <<sinkVars, voiceVars, ttsVars, gateVars, recording, cmdVars, bootVars, lateVars>>
outsideGate ==
    <<sinkVars, voiceVars, ttsVars, reactVars, recording, cmdVars, bootVars, lateVars>>
outsideCmd ==
    <<sinkVars, authVars, voiceVars, ttsVars, reactVars, gateVars, recording, bootVars, lateVars>>
outsideBoot ==
    <<sinkVars, authVars, voiceVars, ttsVars, reactVars, gateVars, recording, cmdVars, lateVars>>
firstNine ==
    <<sinkVars, authVars, voiceVars, ttsVars, reactVars, gateVars, recording, cmdVars, bootVars>>
outsideWake == <<firstNine, muteVars, fleetVars, failVars, segVars, tailVars>>
outsideMute == <<firstNine, wakeVars, fleetVars, failVars, segVars, tailVars>>
outsideFleet == <<firstNine, wakeVars, muteVars, failVars, segVars, tailVars>>
outsideSeg == <<firstNine, wakeVars, muteVars, fleetVars, failVars, tailVars>>
beforeTail == <<firstNine, wakeVars, muteVars, fleetVars, failVars, segVars>>
outsideStop == <<beforeTail, toggleVars, endVars>>
outsideSnap == <<beforeTail, stopVars, toggleVars, bsVars, modVars, loopVars>>
outsideBs == <<beforeTail, stopVars, toggleVars, snapVars, modVars, loopVars>>
outsideMod == <<beforeTail, stopVars, toggleVars, snapVars, bsVars, loopVars>>
outsideLoop == <<beforeTail, stopVars, toggleVars, snapVars, bsVars, modVars>>
\* outsideAuth without the toggles under watch
outsideAuthToggle ==
    <<sinkVars, voiceVars, ttsVars, reactVars, gateVars, recording, cmdVars, bootVars,
      wakeVars, muteVars, fleetVars, failVars, segVars, stopVars, endVars>>
\* outsideAuth without the record of failed writes
outsideAuthWrite ==
    <<sinkVars, voiceVars, ttsVars, reactVars, gateVars, recording, cmdVars, bootVars,
      wakeVars, muteVars, fleetVars, segVars, tailVars>>

\* ------------------------------------------------------------------------
\* Helpers
\* ------------------------------------------------------------------------
RECURSIVE SumLen(_)
\* len() of a bytearray holding the PCM of the frames in s
SumLen(s) == IF s = <<>> THEN 0 ELSE frames[Head(s)] + SumLen(Tail(s))

SeqToSet(s) == {s[i] : i \in DOMAIN s}

BufferOf(uid) == IF user_buffers[uid] = NoBuf THEN <<>> ELSE bufs[user_buffers[uid]]

\* ------------------------------------------------------------------------
\* VoiceHandler.__init__ / VoiceSink.__init__
\* ------------------------------------------------------------------------
SinkInit ==
    /\ listening = TRUE
    /\ owner_only = FALSE
    /\ owner_id = NoUser
    /\ blocked_users = {}
    /\ policyOps = 0
    /\ user_buffers = [u \in Uids |-> NoBuf]
    /\ buf_keys = <<>>
    /\ last_audio_time = [u \in Uids |-> NoTime]
    /\ processing = {}
    /\ packet_count = 0
    /\ bufs = [b \in 1..MaxBufs |-> <<>>]
    /\ nextBuf = 1
    /\ frames = [f \in 1..MaxFrames |-> 0]
    /\ nextFrame = 1
    /\ clock = StartClock
    /\ wPc = "idle" /\ wUid = 0 /\ wFrame = 0 /\ wRef = NoBuf
    /\ gPc = "idle" /\ gNow = 0 /\ gKeys = <<>> /\ gUid = 0 /\ gRef = NoBuf
    /\ gAudio = <<>> /\ gReady = <<>>
    /\ inflight = [u \in Uids |-> 0]
    /\ accepted = {}
    /\ returned = <<>>
    /\ winOk = TRUE
    /\ winLen = [u \in Uids |-> 0]


\* ------------------------------------------------------------------------
\* VoiceSink.write  (runs on the voice-receive thread)
\* ------------------------------------------------------------------------

\* Lines 55-71: the ingestion filters.  VoiceHandler defines no attribute
\* allowed_users, so evaluating line 65 with owner_only = False raises
\* AttributeError and write() ends without touching the buffers.
FilterOutcome(user) ==
    IF ~listening THEN "skip"
    ELSE IF owner_only /\ user # NoUser /\ user # owner_id THEN "skip"
    ELSE IF ~owner_only THEN "raise"
    ELSE IF user # NoUser /\ user \in blocked_users THEN "skip"
    ELSE "pass"

\* Variant of the size guard that already drops at the cap
OverCapAtCap(current_size) == current_size >= MAX_AUDIO_LENGTH

\* Line 89: the size guard
OverCap(current_size) == current_size > MAX_AUDIO_LENGTH

\* Open a window of writes without get_ready_segments: remember the lengths
WinRestart(ub, bf) ==
    /\ winOk' = TRUE
    /\ winLen' = [u \in Uids |-> IF ub[u] = NoBuf THEN 0 ELSE SumLen(bf[ub[u]])]

\* Inside a window, add the PCM length of a write() call that passed the filters
WinCount(uid, counted) ==
    IF winOk
    THEN /\ winLen' = [winLen EXCEPT ![uid] = @ + counted]
         /\ UNCHANGED winOk
    ELSE UNCHANGED <<winOk, winLen>>

\* A write() call that returns: open a window if none is open
WinAfterReturn(ub, bf, uid, counted) ==
    IF gPc = "idle" /\ ~winOk
    THEN WinRestart(ub, bf)
    ELSE WinCount(uid, counted)

\* Lines 56-92 and the load of self.user_buffers[uid] of line 95
WriteBegin(user, n) ==
    /\ wPc = "idle"
    /\ nextFrame <= MaxFrames
    /\ nextFrame' = nextFrame + 1
    /\ LET uid == IF user = NoUser THEN 0 ELSE user
           out == FilterOutcome(user)
           isNew == user_buffers[uid] = NoBuf
           ub == IF isNew THEN [user_buffers EXCEPT ![uid] = nextBuf] ELSE user_buffers
           current_size == SumLen(BufferOf(uid))
       IN
       IF out # "pass" \/ n = 0
       THEN /\ WinAfterReturn(user_buffers, bufs, uid, 0)
            /\ UNCHANGED <<user_buffers, buf_keys, nextBuf, last_audio_time,
                           frames, wPc, wUid, wFrame, wRef>>
       ELSE /\ user_buffers' = ub
            /\ buf_keys' = IF isNew THEN Append(buf_keys, uid) ELSE buf_keys
            /\ nextBuf' = IF isNew THEN nextBuf + 1 ELSE nextBuf
            /\ IF OverCap(current_size)
               THEN /\ last_audio_time' = [last_audio_time EXCEPT ![uid] = 0]
                    /\ WinAfterReturn(ub, bufs, uid,
                          IF current_size <= MAX_AUDIO_LENGTH THEN n ELSE 0)
                    /\ UNCHANGED <<frames, wPc, wUid, wFrame, wRef>>
               ELSE /\ frames' = [frames EXCEPT ![nextFrame] = n]
                    /\ wPc' = "loaded"
                    /\ wUid' = uid
                    /\ wFrame' = nextFrame
                    /\ wRef' = ub[uid]
                    /\ WinCount(uid, IF current_size <= MAX_AUDIO_LENGTH THEN n ELSE 0)
                    /\ UNCHANGED last_audio_time
    /\ UNCHANGED <<listening, owner_only, owner_id, blocked_users, policyOps, processing,
                   packet_count, bufs, clock, gPc, gNow, gKeys, gUid, gRef,
                   gAudio, gReady, inflight, accepted, returned>>
    /\ UNCHANGED outsideSink

\* Line 95: bytearray.extend on the object loaded by WriteBegin
WriteExtend ==
    /\ wPc = "loaded"
    /\ bufs' = [bufs EXCEPT ![wRef] = Append(@, wFrame)]
    /\ accepted' = accepted \cup {<<wUid, wFrame>>}
    /\ wPc' = "extended"
    /\ UNCHANGED <<listening, owner_only, owner_id, blocked_users, policyOps, user_buffers,
                   buf_keys, last_audio_time, processing, packet_count, nextBuf,
                   frames, nextFrame, clock, wUid, wFrame, wRef, gPc,
                   gNow, gKeys, gUid, gRef, gAudio, gReady, inflight, returned,
                   winOk, winLen>>
    /\ UNCHANGED outsideSink

\* Lines 96-99: timestamp and packet counter, then return
WriteStamp ==
    /\ wPc = "extended"
    /\ last_audio_time' = [last_audio_time EXCEPT ![wUid] = clock]
    /\ packet_count' = packet_count + 1
    /\ wPc' = "idle"
    /\ wUid' = 0 /\ wFrame' = 0 /\ wRef' = NoBuf
    /\ IF gPc = "idle" /\ ~winOk
       THEN WinRestart(user_buffers, bufs)
       ELSE UNCHANGED <<winOk, winLen>>
    /\ UNCHANGED <<listening, owner_only, owner_id, blocked_users, policyOps, user_buffers,
                   buf_keys, processing, bufs, nextBuf, frames, nextFrame, clock,
                   gPc, gNow, gKeys, gUid, gRef, gAudio, gReady, inflight,
                   accepted, returned>>
    /\ UNCHANGED outsideSink

\* ------------------------------------------------------------------------
\* VoiceSink.get_ready_segments  (runs on the event loop)
\* ------------------------------------------------------------------------

\* Lines 118-121: ready = [], now = time.time(), list(self.user_buffers.keys())
GrsBegin ==
    /\ gPc = "idle"
    /\ gPc' = "iter"
    /\ gNow' = clock
    /\ gKeys' = buf_keys
    /\ gReady' = <<>>
    /\ winOk' = FALSE
    /\ winLen' = [u \in Uids |-> 0]
    /\ UNCHANGED <<listening, owner_only, owner_id, blocked_users, policyOps, user_buffers,
                   buf_keys, last_audio_time, processing, packet_count, bufs,
                   nextBuf, frames, nextFrame, clock, wPc, wUid, wFrame, wRef,
                   gUid, gRef, gAudio, inflight, accepted, returned>>
    /\ UNCHANGED outsideSink

\* Variant of the readiness test that takes a reset timestamp for no timestamp
SegmentReadyUnforced(buffer, last_time, now) ==
    /\ SumLen(buffer) > MIN_AUDIO_LENGTH
    /\ last_time # 0
    /\ now - last_time > SILENCE_TIMEOUT

\* Lines 129-134: the readiness test of one buffer
SegmentReady(buffer, last_time, now) ==
    LET silence_time == now - last_time
        has_enough_data == SumLen(buffer) > MIN_AUDIO_LENGTH
        silence_detected == silence_time > SILENCE_TIMEOUT
    IN has_enough_data /\ silence_detected

\* Variant of the skip test that skips nobody
SkipProcessingNever(uid) == FALSE

\* Line 123: speakers whose segment is still being processed are skipped
SkipProcessing(uid) == uid \in processing

\* Lines 121-134: one iteration of the loop up to the readiness decision
GrsExamine ==
    /\ gPc = "iter"
    /\ gKeys # <<>>
    /\ LET uid == Head(gKeys)
           buffer == BufferOf(uid)
           last_time == IF last_audio_time[uid] = NoTime THEN gNow
                        ELSE last_audio_time[uid]
       IN /\ gKeys' = Tail(gKeys)
          /\ IF ~SkipProcessing(uid) /\ SegmentReady(buffer, last_time, gNow)
             THEN /\ gPc' = "snap"
                  /\ gUid' = uid
                  /\ gRef' = user_buffers[uid]
             ELSE UNCHANGED <<gPc, gUid, gRef>>
    /\ UNCHANGED <<listening, owner_only, owner_id, blocked_users, policyOps, user_buffers,
                   buf_keys, last_audio_time, processing, packet_count, bufs,
                   nextBuf, frames, nextFrame, clock, wPc, wUid, wFrame, wRef,
                   gNow, gAudio, gReady, inflight, accepted, returned,
                   winOk, winLen>>
    /\ UNCHANGED outsideSink

\* Line 136: audio_data = bytes(buffer)
GrsSnapshot ==
    /\ gPc = "snap"
    /\ gAudio' = bufs[gRef]
    /\ gPc' = "swap"
    /\ UNCHANGED <<listening, owner_only, owner_id, blocked_users, policyOps, user_buffers,
                   buf_keys, last_audio_time, processing, packet_count, bufs,
                   nextBuf, frames, nextFrame, clock, wPc, wUid, wFrame, wRef,
                   gNow, gKeys, gUid, gRef, gReady, inflight, accepted,
                   returned, winOk, winLen>>
    /\ UNCHANGED outsideSink

\* Lines 137-139: install a fresh bytearray, mark the speaker, collect
GrsSwap ==
    /\ gPc = "swap"
    /\ user_buffers' = [user_buffers EXCEPT ![gUid] = nextBuf]
    /\ nextBuf' = nextBuf + 1
    /\ processing' = processing \cup {gUid}
    /\ gReady' = Append(gReady, [uid |-> gUid, audio |-> gAudio])
    /\ gPc' = "iter"
    /\ gUid' = 0 /\ gRef' = NoBuf /\ gAudio' = <<>>
    /\ UNCHANGED <<listening, owner_only, owner_id, blocked_users, policyOps, buf_keys,
                   last_audio_time, packet_count, bufs, frames, nextFrame, clock,
                   wPc, wUid, wFrame, wRef, gNow, gKeys, inflight,
                   accepted, returned, winOk, winLen>>
    /\ UNCHANGED outsideSink

\* Line 143 and handler.py 208-217: return ready; the segmentation loop
\* starts one _process_segment task per returned segment
GrsReturn ==
    /\ gPc = "iter"
    /\ gKeys = <<>>
    /\ returned' = returned \o gReady
    /\ inflight' = [u \in Uids |->
          inflight[u] + Cardinality({i \in DOMAIN gReady : gReady[i].uid = u})]
    /\ gPc' = "idle"
    /\ gNow' = 0 /\ gReady' = <<>>
    /\ IF wPc = "idle"
       THEN WinRestart(user_buffers, bufs)
       ELSE UNCHANGED <<winOk, winLen>>
    /\ UNCHANGED <<listening, owner_only, owner_id, blocked_users, policyOps, user_buffers,
                   buf_keys, last_audio_time, processing, packet_count, bufs,
                   nextBuf, frames, nextFrame, clock, wPc, wUid, wFrame, wRef,
                   gKeys, gUid, gRef, gAudio, accepted>>
    /\ UNCHANGED outsideSink

\* VoiceSink.finish_processing, called from the finally block of
\* _process_segment (handler.py 294-298) on the event loop
FinishProcessing(user_id) ==
    /\ gPc = "idle"
    /\ inflight[user_id] > 0
    /\ inflight' = [inflight EXCEPT ![user_id] = @ - 1]
    /\ processing' = processing \ {user_id}
    /\ UNCHANGED <<listening, owner_only, owner_id, blocked_users, policyOps, user_buffers,
                   buf_keys, last_audio_time, packet_count, bufs, nextBuf, frames,
                   nextFrame, clock, wPc, wUid, wFrame, wRef, gPc, gNow,
                   gKeys, gUid, gRef, gAudio, gReady, accepted, returned, winOk,
                   winLen>>
    /\ UNCHANGED outsideSink

\* ------------------------------------------------------------------------
\* VoiceHandler control methods (event loop) and the passing of time
\* ------------------------------------------------------------------------
sinkDataVars == <<user_buffers, buf_keys, last_audio_time, processing,
                  packet_count, bufs, nextBuf, frames, nextFrame, wPc, wUid,
                  wFrame, wRef, gPc, gNow, gKeys, gUid, gRef, gAudio,
                  gReady, inflight, accepted, returned, winOk, winLen>>

\* VoiceHandler.set_listening
SetListening(enabled) ==
    /\ gPc = "idle"
    /\ policyOps < MaxPolicyOps
    /\ policyOps' = policyOps + 1
    /\ listening # enabled
    /\ listening' = enabled
    /\ UNCHANGED <<owner_only, owner_id, blocked_users, clock, sinkDataVars>>
    /\ UNCHANGED outsideSink

\* VoiceHandler.set_owner_only
SetOwnerOnly(id) ==
    /\ gPc = "idle"
    /\ policyOps < MaxPolicyOps
    /\ policyOps' = policyOps + 1
    /\ owner_id # id
    /\ owner_only' = (id # NoUser)
    /\ owner_id' = id
    /\ UNCHANGED <<listening, blocked_users, clock, sinkDataVars>>
    /\ UNCHANGED outsideSink

\* VoiceHandler.block_user
BlockUser(user_id) ==
    /\ gPc = "idle"
    /\ policyOps < MaxPolicyOps
    /\ policyOps' = policyOps + 1
    /\ user_id \notin blocked_users
    /\ blocked_users' = blocked_users \cup {user_id}
    /\ UNCHANGED <<listening, owner_only, owner_id, clock, sinkDataVars>>
    /\ UNCHANGED outsideSink

\* VoiceHandler.unblock_user
UnblockUser(user_id) ==
    /\ gPc = "idle"
    /\ policyOps < MaxPolicyOps
    /\ policyOps' = policyOps + 1
    /\ user_id \in blocked_users
    /\ blocked_users' = blocked_users \ {user_id}
    /\ UNCHANGED <<listening, owner_only, owner_id, clock, sinkDataVars>>
    /\ UNCHANGED outsideSink

\* One second passes on time.time()
Tick ==
    /\ clock < MaxClock
    /\ clock' = clock + 1
    /\ UNCHANGED <<listening, owner_only, owner_id, blocked_users, policyOps, sinkDataVars>>
    /\ UNCHANGED outsideSink

SinkNext ==
    \/ \E user \in Speakers \cup {NoUser}, n \in PcmSizes : WriteBegin(user, n)
    \/ WriteExtend
    \/ WriteStamp
    \/ GrsBegin
    \/ GrsExamine
    \/ GrsSnapshot
    \/ GrsSwap
    \/ GrsReturn
    \/ \E u \in Uids : FinishProcessing(u)
    \/ \E b \in BOOLEAN : SetListening(b)
    \/ \E id \in OwnerIds \cup {NoUser} : SetOwnerOnly(id)
    \/ \E u \in Speakers : BlockUser(u)
    \/ \E u \in Speakers : UnblockUser(u)
    \/ Tick


\* ========================================================================
\* Properties of the voice sink (SpecSink)
\* ========================================================================
LastTime(uid) == IF last_audio_time[uid] = NoTime THEN gNow ELSE last_audio_time[uid]

InCurrentBuffer(uid, f) == f \in SeqToSet(BufferOf(uid))

SegmentsHolding(uid, f) ==
    Cardinality({i \in DOMAIN returned :
                    returned[i].uid = uid /\ f \in SeqToSet(returned[i].audio)})

\* C1: once get_ready_segments has returned, every frame that write()
\* appended for a speaker is either in that speaker's current buffer or in
\* exactly one returned segment, never lost and never duplicated.
C1_NoLostBytes ==
    gPc = "idle" =>
        \A a \in accepted :
            \/ InCurrentBuffer(a[1], a[2]) /\ SegmentsHolding(a[1], a[2]) = 0
            \/ ~InCurrentBuffer(a[1], a[2]) /\ SegmentsHolding(a[1], a[2]) = 1

\* C4 (state part): a speaker has at most one segment that was handed off
\* and not yet released, the speaker being snapshotted is not marked
\* processing, and a speaker with no unreleased segment is not marked.
C4_Exclusive ==
    /\ \A u \in Uids :
          inflight[u] + Cardinality({i \in DOMAIN gReady : gReady[i].uid = u}) <= 1
    /\ gPc \in {"snap", "swap"} => gUid \notin processing
    /\ gPc = "idle" => \A u \in Uids : inflight[u] = 0 => u \notin processing

\* C4 (step part): when get_ready_segments examines a speaker that is not
\* marked processing and whose buffer meets the length and silence
\* conditions, it takes the buffer as a segment; otherwise it takes none.
C4_Step ==
    (gPc = "iter" /\ gKeys # <<>> /\ gKeys' = Tail(gKeys)) =>
        LET u == Head(gKeys) IN
        (gPc' = "snap" /\ gUid' = u) <=>
            (u \notin processing /\ SegmentReady(BufferOf(u), LastTime(u), gNow))

\* C4: get_ready_segments never returns a segment for a speaker in the
\* processing set, and after finish_processing the speaker's next buffer
\* that satisfies the silence and minimum-length conditions is returned.
C4_ProcessingExcluded == []C4_Exclusive /\ [][C4_Step]_vars

\* C4 witness: a speaker was handed off, released by finish_processing and
\* handed off a second time.
C4_Witness ==
    \E i, j \in DOMAIN returned :
        /\ i < j
        /\ returned[i].uid = returned[j].uid
        /\ inflight[returned[i].uid] = 0

\* C8: while no get_ready_segments call intervenes, a speaker's buffer
\* length equals its length at the start plus the PCM lengths of the
\* write() calls that passed the filters and found the buffer not above
\* MAX_AUDIO_LENGTH.
C8_NoSilentLoss ==
    (winOk /\ wPc = "idle") =>
        \A u \in Uids : SumLen(BufferOf(u)) = winLen[u]

\* C8 witness: several frames were written with no get_ready_segments call
\* at all and the buffer has grown past the cap.
C8_Witness ==
    /\ winOk /\ wPc = "idle" /\ returned = <<>>
    /\ \E u \in Uids :
          /\ Len(BufferOf(u)) >= 2
          /\ SumLen(BufferOf(u)) > MAX_AUDIO_LENGTH
          /\ SumLen(BufferOf(u)) = winLen[u]

\* Before its last append the buffer was within the cap: it holds at most
\* MAX_AUDIO_LENGTH bytes plus one frame
C32_Bound ==
    \A u \in Uids :
        LET b == BufferOf(u)
        IN b # <<>> => SumLen(b) - frames[b[Len(b)]] <= MAX_AUDIO_LENGTH

\* A frame that reaches the size guard of a buffer over the cap is not
\* appended and resets the speaker's last-frame time.  A speaker whose
\* buffer is over the cap with a reset time is taken by the next pass of
\* get_ready_segments over it unless marked processing.
C32_Step ==
    /\ \A user \in Speakers \cup {NoUser}, n \in PcmSizes :
          LET uid == IF user = NoUser THEN 0 ELSE user
          IN (/\ WriteBegin(user, n)
              /\ FilterOutcome(user) = "pass" /\ n > 0
              /\ SumLen(BufferOf(uid)) > MAX_AUDIO_LENGTH)
                 => /\ wPc' = "idle"
                    /\ UNCHANGED <<user_buffers, bufs>>
                    /\ last_audio_time'[uid] = 0
    /\ (gPc = "iter" /\ gKeys # <<>> /\ gKeys' = Tail(gKeys))
          => LET uid == Head(gKeys)
             IN (last_audio_time[uid] = 0 /\ SumLen(BufferOf(uid)) > MAX_AUDIO_LENGTH)
                   => IF uid \in processing
                      THEN gPc' = "iter"
                      ELSE gPc' = "snap" /\ gUid' = uid /\ gRef' = user_buffers[uid]

\* C32: a speaker's buffer never grows beyond MAX_AUDIO_LENGTH plus one
\* frame; once it exceeds the cap, further frames are not appended and the
\* speaker's last-frame time is reset so that the next get_ready_segments
\* call returns the buffer as a segment, unless the speaker is marked
\* processing.
C32_CapForcesFlush == []C32_Bound /\ [][C32_Step]_vars

\* C32 witness: a buffer went over the cap, a further frame reset the
\* speaker's time, and get_ready_segments returned the buffer.
C32_Witness ==
    \E i \in DOMAIN returned :
        /\ SumLen(returned[i].audio) > MAX_AUDIO_LENGTH
        /\ last_audio_time[returned[i].uid] = 0
        /\ nextFrame > Len(returned[i].audio) + 1

\* The filters as the specification lists them: (a) the listening toggle,
\* (b) owner-only mode with a speaker other than the designated owner,
\* (c) the block list.
AdmittedByFilters(user) ==
    /\ listening
    /\ (~owner_only \/ user = owner_id)
    /\ user \notin blocked_users

\* One call of write(user, data) with len(data.pcm) = n: the frame is taken
\* for appending exactly when the filters admit it, the PCM is non-empty and
\* the size cap is not exceeded; a frame dropped by a filter leaves every
\* buffer and every last-frame timestamp as they were.
C29_Step ==
    \A user \in Speakers \cup {NoUser}, n \in PcmSizes :
        WriteBegin(user, n) =>
            LET uid == IF user = NoUser THEN 0 ELSE user
            IN /\ (wPc' = "loaded" /\ wUid' = uid /\ frames'[nextFrame] = n)
                     <=> (/\ AdmittedByFilters(user)
                          /\ n > 0
                          /\ ~OverCap(SumLen(BufferOf(uid))))
               /\ ~AdmittedByFilters(user)
                     => UNCHANGED <<user_buffers, bufs, last_audio_time>>

\* C29: VoiceSink.write appends a frame's PCM to the speaker's buffer if and
\* only if listening is on, owner-only mode is off or the speaker (identified
\* or not) is the designated owner, the speaker is not blocked, the PCM is
\* non-empty and the size cap is not exceeded; a frame dropped by a filter
\* changes no buffer and no last-frame timestamp.
C29_WriteFilters == [][C29_Step]_vars

\* ========================================================================
\* AuthCog: authorization record, save queue, worker thread, storage
\* ========================================================================
BotOwner == 1                   \* AuthCog.owner_id (BOT_OWNER_ID)
AuthUsers == {1, 2}             \* Discord user ids issuing or targeted by commands
Guilds == {"g1"}                \* guild keys, str(guild.id)

GlobalOp == [kind |-> "global", key |-> "None"]
GuildOp(guild_key) == [kind |-> "guild", key |-> guild_key]

\* Line 1503: the commands that are admin-only when no override is set
ADMIN_COMMANDS ==
    {"kick", "ban", "unban", "softban", "mute", "unmute", "muteall",
     "unmuteall", "deafen", "undeafen", "timeout", "untimeout", "move",
     "kick_voice", "clear", "purge", "addrole", "removerole", "addadmin",
     "removeadmin", "addmod", "removemod", "blacklist", "unblacklist",
     "whitelist", "unwhitelist", "setlimit", "voicediag"}

EmptyMap == [k \in {} |-> {}]
AbsentDb == [state |-> "absent", blacklisted |-> {}]
EmptyDb == [state |-> "ok", blacklisted |-> {}]

\* dict.setdefault(key, []) and del dict[key]
SetDefault(map, key) == IF key \in DOMAIN map THEN map ELSE (key :> {}) @@ map
DelKey(map, key) == [k \in DOMAIN map \ {key} |-> map[k]]

\* AuthCog._all_guild_keys over the per-guild maps of the record
AllGuildKeysOf(bl, ov) == DOMAIN bl \cup DOMAIN ov
AllGuildKeys == AllGuildKeysOf(blacklisted, command_overrides)

\* AuthCog.is_owner / is_admin / is_blacklisted
IsOwner(user_id) == user_id = BotOwner
IsAdmin(user_id) == user_id \in admins \/ IsOwner(user_id)
IsBlacklisted(user_id, guild_key) ==
    \/ guild_key \in DOMAIN blacklisted /\ user_id \in blacklisted[guild_key]
    \/ "_global" \in DOMAIN blacklisted /\ user_id \in blacklisted["_global"]

\* AuthCog.get_command_override: the record as a set of at most one element
GetCommandOverride(guild_key, command_name) ==
    IF /\ guild_key \in DOMAIN command_overrides
       /\ command_name \in DOMAIN command_overrides[guild_key]
    THEN {command_overrides[guild_key][command_name]}
    ELSE IF /\ "_global" \in DOMAIN command_overrides
            /\ command_name \in DOMAIN command_overrides["_global"]
         THEN {command_overrides["_global"][command_name]}
         ELSE {}

\* Variants of check_command_permission on which the properties of the
\* default policy and of the owner bypass must fail: without the admin-only
\* default, and with the disabled test ahead of the owner bypass.
CheckCommandPermissionNoDefault(guild_key, cmd_name, author, author_roles) ==
    LET overrides == GetCommandOverride(guild_key, cmd_name) IN
    IF overrides = {}
    THEN TRUE
    ELSE LET o == CHOOSE x \in overrides : TRUE IN
         IF IsOwner(author) THEN TRUE
         ELSE IF o.disabled THEN FALSE
         ELSE IF o.allowed_users # {} /\ author \notin o.allowed_users THEN FALSE
         ELSE IF o.allowed_roles # {} /\ author_roles \cap o.allowed_roles = {} THEN FALSE
         ELSE TRUE

CheckCommandPermissionDisabledFirst(guild_key, cmd_name, author, author_roles) ==
    LET overrides == GetCommandOverride(guild_key, cmd_name) IN
    IF overrides = {}
    THEN ~(cmd_name \in ADMIN_COMMANDS /\ ~IsAdmin(author))
    ELSE LET o == CHOOSE x \in overrides : TRUE IN
         IF o.disabled THEN FALSE
         ELSE IF IsOwner(author) THEN TRUE
         ELSE IF o.allowed_users # {} /\ author \notin o.allowed_users THEN FALSE
         ELSE IF o.allowed_roles # {} /\ author_roles \cap o.allowed_roles = {} THEN FALSE
         ELSE TRUE

\* AuthCog.check_command_permission for a command invoked in a guild
CheckCommandPermission(guild_key, cmd_name, author, author_roles) ==
    LET overrides == GetCommandOverride(guild_key, cmd_name) IN
    IF overrides = {}
    THEN ~(cmd_name \in ADMIN_COMMANDS /\ ~IsAdmin(author))
    ELSE LET o == CHOOSE x \in overrides : TRUE IN
         IF IsOwner(author) THEN TRUE
         ELSE IF o.disabled THEN FALSE
         ELSE IF o.allowed_users # {} /\ author \notin o.allowed_users THEN FALSE
         ELSE IF o.allowed_roles # {} /\ author_roles \cap o.allowed_roles = {} THEN FALSE
         ELSE TRUE

\* ctx.guild.owner_id: the member who owns the guild on Discord
GuildOwner == 2

\* Variant of the only-me step that lets the bot owner through the lock
OnlyMeStepOwnerBypass(cmd_name, author) ==
    IF only_me_user_id = NoUser \/ IsOwner(author) THEN "next"
    ELSE IF /\ cmd_name = "openall"
            /\ (author = only_me_user_id \/ IsAdmin(author) \/ author = GuildOwner)
         THEN "admit"
         ELSE IF author # only_me_user_id THEN "deny" ELSE "next"

\* the only-me step shared by global_auth_check and AuthCog.cog_check:
\* "admit" (return True), "deny" (return False) or "next" (fall through)
OnlyMeStep(cmd_name, author) ==
    IF only_me_user_id = NoUser THEN "next"
    ELSE IF /\ cmd_name = "openall"
            /\ (author = only_me_user_id \/ IsAdmin(author) \/ author = GuildOwner)
         THEN "admit"
         ELSE IF author # only_me_user_id THEN "deny" ELSE "next"

\* setup_global_check.global_auth_check: only-me step, blacklist, overrides
GlobalAuthCheck(guild_key, cmd_name, author, author_roles) ==
    \/ OnlyMeStep(cmd_name, author) = "admit"
    \/ /\ OnlyMeStep(cmd_name, author) = "next"
       /\ ~IsBlacklisted(author, guild_key)
       /\ CheckCommandPermission(guild_key, cmd_name, author, author_roles)

\* AuthCog.cog_check: blacklist, only-me step, overrides
CogCheck(guild_key, cmd_name, author, author_roles) ==
    /\ ~IsBlacklisted(author, guild_key)
    /\ \/ OnlyMeStep(cmd_name, author) = "admit"
       \/ /\ OnlyMeStep(cmd_name, author) = "next"
          /\ CheckCommandPermission(guild_key, cmd_name, author, author_roles)

\* AuthCog._enqueue_save on the queue state st = [q, s, d, p]
EnqueueSave(operation, st, keys) ==
    IF operation.kind = "guild" /\ operation.key \in st.d /\ operation.key \notin keys
    THEN st
    ELSE LET d2 == IF operation.kind = "guild" THEN st.d \ {operation.key} ELSE st.d
             p2 == st.p \cup {operation}
         IN IF operation \in st.s
            THEN [st EXCEPT !.d = d2, !.p = p2]
            ELSE [q |-> Append(st.q, operation), s |-> st.s \cup {operation},
                  d |-> d2, p |-> p2]

RECURSIVE EnqueueAll(_, _, _)
EnqueueAll(ops, st, keys) ==
    IF ops = <<>> THEN st
    ELSE EnqueueAll(Tail(ops), EnqueueSave(Head(ops), st, keys), keys)

\* the orders in which a Python set of guild keys can be iterated
Orders(S) == {f \in [1..Cardinality(S) -> S] : \A i, j \in DOMAIN f : f[i] = f[j] => i = j}
GuildOps(order) == [i \in DOMAIN order |-> GuildOp(order[i])]

\* auth_data["blacklisted"].get(guild_key, []) as a set
MemList(bl, guild_key) == IF guild_key \in DOMAIN bl THEN bl[guild_key] ELSE {}

\* AuthCog._save_auth_data: the operations ops are enqueued one after the
\* other against the record whose blacklisted map is bl
SaveAuthData(ops, bl, del) ==
    LET st0 == [q |-> save_queue, s |-> queued_save_ops, d |-> del, p |-> enqPending]
        st == EnqueueAll(ops, st0, AllGuildKeysOf(bl, command_overrides))
    IN /\ Len(st.q) <= MaxQueue
       /\ save_queue' = st.q
       /\ queued_save_ops' = st.s
       /\ deleted_guilds' = st.d
       /\ enqPending' = st.p
       /\ qSnap' = IF recording
                   THEN qSnap \o [i \in 1..(Len(st.q) - Len(save_queue)) |->
                                     MemList(bl, st.q[Len(save_queue) + i].key)]
                   ELSE qSnap

queueVars == <<save_queue, queued_save_ops, deleted_guilds, enqPending, qSnap>>
workerVars == <<kPc, kOp, kLive, kVal, kSnap, kSeen>>

\* kSeen once the record's blacklisted map has become bl
SeenWith(bl) ==
    IF recording /\ kPc \in {"check", "payload", "init"}
    THEN kSeen \cup {MemList(bl, kOp.key)}
    ELSE kSeen

\* AuthCog.__init__ on an empty store
AuthInit ==
    /\ guilds \in SUBSET Guilds
    /\ admins = {}
    /\ blacklisted = EmptyMap
    /\ command_overrides = EmptyMap
    /\ save_queue = <<>>
    /\ queued_save_ops = {}
    /\ deleted_guilds = {}
    /\ store_guild = [g \in Guilds |-> AbsentDb]
    /\ store_admins = {}
    /\ kPc = "idle" /\ kOp = GlobalOp /\ kLive = FALSE /\ kVal = {}
    /\ qSnap = <<>> /\ kSnap = {} /\ kSeen = {}
    /\ evPc = "idle" /\ evGuild = "None"
    /\ lastCheck = [guild |-> "None", cmd |-> "None", author |-> 0, roles |-> {},
                    allowed |-> TRUE]
    /\ enqPending = {}
    /\ removed = {}
    /\ ownerActed = FALSE

\* ------------------------------------------------------------------------
\* Commands (event loop).  A command runs when the global check admits it.
\* ------------------------------------------------------------------------

\* a change of one guild's blacklist followed by _save_auth_data(guild.id)
BlacklistEffect(guild_key, author, bl0, newSet) ==
    /\ ownerActed' = (ownerActed \/ author = BotOwner)
    /\ IF newSet # bl0[guild_key]
       THEN LET bl == [bl0 EXCEPT ![guild_key] = newSet] IN
            /\ blacklisted' = bl
            /\ SaveAuthData(<<GuildOp(guild_key)>>, bl, deleted_guilds)
       ELSE /\ blacklisted' = bl0
            /\ UNCHANGED queueVars
    /\ kSeen' = SeenWith(blacklisted')
    /\ UNCHANGED <<guilds, admins, command_overrides, store_guild, store_admins,
                   kPc, kOp, kLive, kVal, kSnap, evPc, evGuild, lastCheck, removed>>
    /\ UNCHANGED outsideAuth

\* AuthCog.blacklist_user
BlacklistUser(guild_key, author, member) ==
    /\ evPc = "idle"
    /\ guild_key \in guilds
    /\ GlobalAuthCheck(guild_key, "blacklist", author, {})
    /\ IsAdmin(author)
    /\ ~IsAdmin(member)
    /\ LET bl0 == SetDefault(blacklisted, guild_key) IN
       BlacklistEffect(guild_key, author, bl0, bl0[guild_key] \cup {member})

\* AuthCog.unblacklist_user with a member argument
UnblacklistUser(guild_key, author, member) ==
    /\ evPc = "idle"
    /\ guild_key \in guilds
    /\ GlobalAuthCheck(guild_key, "unblacklist", author, {})
    /\ IsAdmin(author)
    /\ guild_key \in DOMAIN blacklisted
    /\ member \in blacklisted[guild_key]
    /\ BlacklistEffect(guild_key, author, blacklisted, blacklisted[guild_key] \ {member})

\* AuthCog.autokick with a member argument; the invoker holds the Discord
\* administrator permission of the guild (has_permissions)
Autokick(guild_key, author, member) ==
    /\ evPc = "idle"
    /\ guild_key \in guilds
    /\ GlobalAuthCheck(guild_key, "autokick", author, {})
    /\ LET bl0 == SetDefault(blacklisted, guild_key) IN
       BlacklistEffect(guild_key, author, bl0, bl0[guild_key] \cup {member})

\* AuthCog.stop_kick_cmd
StopKick(guild_key, author, member) ==
    /\ evPc = "idle"
    /\ guild_key \in guilds
    /\ GlobalAuthCheck(guild_key, "stopkick", author, {})
    /\ LET bl0 == SetDefault(blacklisted, guild_key) IN
       BlacklistEffect(guild_key, author, bl0, bl0[guild_key] \ {member})

\* AuthCog.add_admin / remove_admin, followed by _save_auth_data()
SetAdmins(guild_key, cmd_name, author, newAdmins) ==
    /\ evPc = "idle"
    /\ guild_key \in guilds
    /\ GlobalAuthCheck(guild_key, cmd_name, author, {})
    /\ IsOwner(author)
    /\ newAdmins # admins
    /\ admins' = newAdmins
    /\ \E order \in Orders(AllGuildKeys) :
          SaveAuthData(<<GlobalOp>> \o GuildOps(order), blacklisted, deleted_guilds)
    /\ UNCHANGED <<guilds, blacklisted, command_overrides, store_guild,
                   store_admins, workerVars, evPc, evGuild, lastCheck, removed,
                   ownerActed>>
    /\ UNCHANGED outsideAuth

AddAdmin(guild_key, author, member) ==
    SetAdmins(guild_key, "addadmin", author, admins \cup {member})

RemoveAdmin(guild_key, author, member) ==
    SetAdmins(guild_key, "removeadmin", author, admins \ {member})

\* ------------------------------------------------------------------------
\* Guild membership events (event loop)
\* ------------------------------------------------------------------------

\* AuthSQLiteStore.ensure_guild_db / _init_guild_db: create file and tables
InitGuildDb(db) == IF db.state = "ok" THEN db ELSE EmptyDb

\* AuthCog.on_guild_join
OnGuildJoin(guild_key) ==
    /\ evPc = "idle"
    /\ guild_key \notin guilds
    /\ guilds' = guilds \cup {guild_key}
    /\ store_guild' = [store_guild EXCEPT ![guild_key] = InitGuildDb(@)]
    /\ SaveAuthData(<<GuildOp(guild_key)>>, blacklisted, deleted_guilds \ {guild_key})
    /\ removed' = removed \ {guild_key}
    /\ UNCHANGED <<admins, blacklisted, command_overrides, store_admins,
                   workerVars, evPc, evGuild, lastCheck, ownerActed>>
    /\ UNCHANGED outsideAuth

\* AuthCog.on_guild_remove, lines 2764-2772: mark deleted, purge the record,
\* drop the pending mark.  A payload the worker already built keeps the list
\* object that the purge unlinks from the record.
OnGuildRemoveMark(guild_key) ==
    /\ evPc = "idle"
    /\ guild_key \in guilds
    /\ guilds' = guilds \ {guild_key}
    /\ deleted_guilds' = deleted_guilds \cup {guild_key}
    /\ blacklisted' = DelKey(blacklisted, guild_key)
    /\ command_overrides' = DelKey(command_overrides, guild_key)
    /\ queued_save_ops' = queued_save_ops \ {GuildOp(guild_key)}
    /\ IF kLive /\ kOp = GuildOp(guild_key)
       THEN kLive' = FALSE /\ kVal' = blacklisted[guild_key]
       ELSE UNCHANGED <<kLive, kVal>>
    /\ evPc' = "remove_delete"
    /\ evGuild' = guild_key
    /\ removed' = removed \cup {guild_key}
    /\ kSeen' = SeenWith(blacklisted')
    /\ UNCHANGED <<admins, save_queue, store_guild, store_admins, kPc, kOp,
                   lastCheck, enqPending, ownerActed, qSnap, kSnap>>
    /\ UNCHANGED outsideAuth

\* AuthCog.on_guild_remove, line 2774: store.delete_guild
OnGuildRemoveDelete ==
    /\ evPc = "remove_delete"
    /\ store_guild' = [store_guild EXCEPT ![evGuild] = AbsentDb]
    /\ evPc' = "idle"
    /\ evGuild' = "None"
    /\ UNCHANGED <<guilds, admins, blacklisted, command_overrides, queueVars,
                   store_admins, workerVars, lastCheck, removed, ownerActed>>
    /\ UNCHANGED outsideAuth

\* ------------------------------------------------------------------------
\* AuthCog._save_worker_loop (worker thread)
\* ------------------------------------------------------------------------
authDataVars == <<guilds, admins, blacklisted, command_overrides>>

\* Line 1008: operation = self._save_queue.get()
WorkerGet ==
    /\ kPc = "idle"
    /\ save_queue # <<>>
    /\ kOp' = Head(save_queue)
    /\ save_queue' = Tail(save_queue)
    /\ IF recording
       THEN /\ qSnap' = Tail(qSnap)
            /\ kSnap' = Head(qSnap)
            /\ kSeen' = IF Head(save_queue).kind = "guild"
                        THEN {MemList(blacklisted, Head(save_queue).key)} ELSE {}
       ELSE UNCHANGED <<qSnap, kSnap, kSeen>>
    /\ kPc' = IF Head(save_queue).kind = "global" THEN "global" ELSE "check"
    /\ UNCHANGED <<authDataVars, queued_save_ops, deleted_guilds, store_guild,
                   store_admins, kLive, kVal, evPc, evGuild, lastCheck,
                   enqPending, removed, ownerActed>>
    /\ UNCHANGED outsideAuth

\* Line 1016 and AuthSQLiteStore.save_global
WorkerSaveGlobal ==
    /\ kPc = "global"
    /\ store_admins' = admins
    /\ kPc' = "finally"
    /\ UNCHANGED <<authDataVars, queueVars, store_guild, kOp, kLive, kVal, evPc,
                   evGuild, lastCheck, removed, ownerActed>>
    /\ UNCHANGED <<kSnap, kSeen>>
    /\ UNCHANGED outsideAuth

\* Line 1018: the guard on _deleted_guilds
SaveAllowed(guild_key) == guild_key \notin deleted_guilds

WorkerCheck ==
    /\ kPc = "check"
    /\ kPc' = IF SaveAllowed(kOp.key) THEN "payload" ELSE "finally"
    /\ UNCHANGED <<authDataVars, queueVars, store_guild, store_admins, kOp,
                   kLive, kVal, evPc, evGuild, lastCheck, removed, ownerActed>>
    /\ UNCHANGED <<kSnap, kSeen>>
    /\ UNCHANGED outsideAuth

\* Line 1019, argument: _guild_payload returns the record's own list, or a
\* fresh empty list when the guild has no key
WorkerPayload ==
    /\ kPc = "payload"
    /\ kLive' = (kOp.key \in DOMAIN blacklisted)
    /\ kVal' = {}
    /\ kPc' = "init"
    /\ UNCHANGED <<authDataVars, queueVars, store_guild, store_admins, kOp,
                   evPc, evGuild, lastCheck, removed, ownerActed>>
    /\ UNCHANGED <<kSnap, kSeen>>
    /\ UNCHANGED outsideAuth

\* AuthSQLiteStore.save_guild line 252 read at the enqueue of the operation
\* instead: the list a worker would store if payloads were built on enqueue
ReadListAtEnqueue == kSnap

\* AuthSQLiteStore.save_guild line 252: the payload's list is read now
ReadList == IF kLive THEN blacklisted[kOp.key] ELSE kVal

\* AuthSQLiteStore.save_guild lines 247-255: _init_guild_db under the store
\* lock, then the lists of the payload are read
WorkerInit ==
    /\ kPc = "init"
    /\ store_guild' = [store_guild EXCEPT ![kOp.key] = InitGuildDb(@)]
    /\ kVal' = ReadList
    /\ kLive' = FALSE
    /\ kPc' = "write"
    /\ UNCHANGED <<authDataVars, queueVars, store_admins, kOp, evPc, evGuild,
                   lastCheck, removed, ownerActed>>
    /\ UNCHANGED <<kSnap, kSeen>>
    /\ UNCHANGED outsideAuth

NoFailure == [has |-> FALSE, list |-> {}]
NoRecovery == [has |-> FALSE, failed |-> {}, stored |-> {}]

FailInit ==
    /\ kFails = 0
    /\ failedList = NoFailure
    /\ recovered = NoRecovery

\* the first write of a guild's lists after one that raised is noted
NoteWrite ==
    IF failedList.has /\ store_guild[kOp.key].state = "ok"
    THEN /\ recovered' = [has |-> TRUE, failed |-> failedList.list, stored |-> kVal]
         /\ failedList' = NoFailure
         /\ UNCHANGED kFails
    ELSE UNCHANGED failVars

\* AuthSQLiteStore.save_guild lines 257-347 under the store lock.  If the
\* file was unlinked since _init_guild_db, connect() creates a file without
\* tables and the first statement raises; the worker logs the error.
WorkerWrite ==
    /\ kPc = "write"
    /\ store_guild' = [store_guild EXCEPT ![kOp.key] =
          IF @.state = "ok" THEN [state |-> "ok", blacklisted |-> kVal]
          ELSE [state |-> "noschema", blacklisted |-> {}]]
    /\ kVal' = {}
    /\ kPc' = "finally"
    /\ UNCHANGED <<authDataVars, queueVars, store_admins, kOp, kLive, evPc,
                   evGuild, lastCheck, removed, ownerActed>>
    /\ kSeen' = {}
    /\ UNCHANGED kSnap
    /\ NoteWrite
    /\ UNCHANGED outsideAuthWrite

\* a write that raises and is put back into the queue by the handler
WorkerWriteFailsRequeues ==
    /\ kPc = "write"
    /\ kFails < MaxFails
    /\ Len(save_queue) < MaxQueue
    /\ kFails' = kFails + 1
    /\ failedList' = [has |-> TRUE, list |-> kVal]
    /\ save_queue' = Append(save_queue, kOp)
    /\ qSnap' = Append(qSnap, kVal)
    /\ kVal' = {}
    /\ kPc' = "finally"
    /\ UNCHANGED <<authDataVars, queued_save_ops, deleted_guilds, enqPending,
                   store_guild, store_admins, kOp, kLive, evPc, evGuild,
                   lastCheck, removed, ownerActed, kSnap, kSeen, recovered>>
    /\ UNCHANGED outsideAuthWrite

\* AuthSQLiteStore.save_guild lines 257-347 raising (disk full, database
\* locked): the connection's context manager rolls the transaction back,
\* the except clause at lines 1020-1021 logs the error
WorkerWriteFails ==
    /\ kPc = "write"
    /\ kFails < MaxFails
    /\ kFails' = kFails + 1
    /\ failedList' = [has |-> TRUE, list |-> kVal]
    /\ kVal' = {}
    /\ kPc' = "finally"
    /\ UNCHANGED <<authDataVars, queueVars, store_guild, store_admins, kOp, kLive,
                   evPc, evGuild, lastCheck, removed, ownerActed, kSnap, kSeen,
                   recovered>>
    /\ UNCHANGED outsideAuthWrite

\* AuthSQLiteStore.save_global lines 238-244 raising
WorkerSaveGlobalFails ==
    /\ kPc = "global"
    /\ kFails < MaxFails
    /\ kFails' = kFails + 1
    /\ kPc' = "finally"
    /\ UNCHANGED <<authDataVars, queueVars, store_guild, store_admins, kOp, kLive,
                   kVal, evPc, evGuild, lastCheck, removed, ownerActed, kSnap,
                   kSeen, failedList, recovered>>
    /\ UNCHANGED outsideAuthWrite

\* Lines 1022-1025: the finally block
WorkerFinally ==
    /\ kPc = "finally"
    /\ queued_save_ops' = queued_save_ops \ {kOp}
    /\ enqPending' = enqPending \ {kOp}
    /\ kPc' = "idle"
    /\ kOp' = GlobalOp
    /\ UNCHANGED <<authDataVars, save_queue, deleted_guilds, store_guild,
                   store_admins, kLive, kVal, evPc, evGuild, lastCheck, removed,
                   ownerActed>>
    /\ kSnap' = {}
    /\ kSeen' = {}
    /\ UNCHANGED qSnap
    /\ UNCHANGED outsideAuth

AuthNext ==
    \/ \E g \in Guilds, a, m \in AuthUsers : BlacklistUser(g, a, m)
    \/ \E g \in Guilds, a, m \in AuthUsers : UnblacklistUser(g, a, m)
    \/ \E g \in Guilds, a, m \in AuthUsers : Autokick(g, a, m)
    \/ \E g \in Guilds, a, m \in AuthUsers : StopKick(g, a, m)
    \/ \E g \in Guilds, a, m \in AuthUsers : AddAdmin(g, a, m)
    \/ \E g \in Guilds, a, m \in AuthUsers : RemoveAdmin(g, a, m)
    \/ \E g \in Guilds : OnGuildJoin(g)
    \/ \E g \in Guilds : OnGuildRemoveMark(g)
    \/ OnGuildRemoveDelete
    \/ WorkerGet
    \/ WorkerSaveGlobal
    \/ WorkerCheck
    \/ WorkerPayload
    \/ WorkerInit
    \/ WorkerWrite
    \/ WorkerFinally


\* ------------------------------------------------------------------------
\* Properties of the save queue, the blacklist and guild removal
\* ------------------------------------------------------------------------
QueueCopies(operation) ==
    Cardinality({i \in DOMAIN save_queue : save_queue[i] = operation})
WorkerHolds(operation) == kPc # "idle" /\ kOp = operation
PendingWrites(operation) ==
    QueueCopies(operation) + (IF WorkerHolds(operation) THEN 1 ELSE 0)
Drained == save_queue = <<>> /\ kPc = "idle" /\ evPc = "idle"

\* C2: a guild save operation that _enqueue_save accepted one or more times
\* since the worker last finished it has exactly one write pending (queued or
\* in the worker's hands): a pending operation is never queued a second time.
C2_OneWritePerBatch ==
    \A g \in Guilds :
        GuildOp(g) \in enqPending => PendingWrites(GuildOp(g)) = 1

\* C5: as long as the owner issued no blacklist command, the owner's id is
\* in no guild's blacklisted list.
C5_OwnerNeverBlacklisted ==
    ~ownerActed => \A g \in DOMAIN blacklisted : BotOwner \notin blacklisted[g]

\* C9: once on_guild_remove(g) has run, g has not re-joined and the queue is
\* drained, the record has no key for g and the store has no written
\* database for g.
C9_RemovedGuildGone ==
    \A g \in removed :
        Drained => g \notin AllGuildKeys /\ store_guild[g].state # "ok"

\* C17: the list a write of the save worker stores for a guild is a value the
\* guild's in-memory list has had since the worker took the operation from
\* the queue (so it includes every mutation made between enqueue and
\* dequeue); it is not fixed when the operation is queued.
C17_Step ==
    (/\ kPc = "write" /\ kPc' = "finally"
     /\ store_guild'[kOp.key].state = "ok")
        => store_guild'[kOp.key].blacklisted \in kSeen
C17_WritesLiveState == [][C17_Step]_vars

\* a write just done that stored a list changed after its operation was queued
C17_Witness ==
    /\ kPc = "finally"
    /\ kOp.kind = "guild"
    /\ store_guild[kOp.key].state = "ok"
    /\ store_guild[kOp.key].blacklisted # kSnap
    /\ store_guild[kOp.key].blacklisted = MemList(blacklisted, kOp.key)
    /\ store_guild[kOp.key].blacklisted # {}

\* C23: whenever the save queue is drained (nothing queued, the worker
\* idle, no event handler under way), so that nothing more would be written
\* if the mutations stopped here, the stored admin list equals the
\* in-memory one and the stored blacklist of every guild the bot is in
\* equals the in-memory one; this includes a mutation whose save was
\* enqueued while the worker was writing the same key.
C23_DrainedInSync ==
    Drained =>
        /\ store_admins = admins
        /\ \A g \in guilds : store_guild[g].blacklisted = MemList(blacklisted, g)

\* the operations a save can name
SaveOps == {GlobalOp} \cup {GuildOp(g) : g \in Guilds}

\* C27: each operation is in the save queue at most once, and it is in the
\* pending set _queued_save_ops exactly when it is in the queue or in the
\* worker's hands, also across on_guild_remove and a later on_guild_join.
C27_QueueMatchesPending ==
    \A operation \in SaveOps :
        /\ QueueCopies(operation) <= 1
        /\ operation \in queued_save_ops <=> PendingWrites(operation) >= 1

\* C26: a store write that raises inside the worker leaves the worker at its
\* finally block with the in-memory record, the queue and the store as they
\* were (nothing is queued again); the finally block takes the operation out
\* of the pending set and returns the worker to the queue; and the next
\* write of the key stores a list the in-memory record has had since that
\* write's operation was dequeued, the failed change included as far as the
\* record still holds it.
C26_Step ==
    /\ (kFails' # kFails)
          => /\ kPc' = "finally"
             /\ UNCHANGED <<authDataVars, save_queue, store_guild, store_admins>>
    /\ (kPc = "finally" /\ kPc' # "finally")
          => /\ kPc' = "idle"
             /\ kOp \notin queued_save_ops'
             /\ UNCHANGED <<authDataVars, save_queue>>
    /\ (recovered' # recovered)
          => /\ recovered'.stored \in kSeen
             /\ store_guild'[kOp.key].blacklisted = recovered'.stored
C26_FailedWriteDropped == [][C26_Step]_vars

\* the write of {2} for a guild raised; an unrelated mutation queued the
\* guild's save again and that write stored {2}
C26_Witness ==
    /\ kFails > 0
    /\ recovered = [has |-> TRUE, failed |-> {2}, stored |-> {2}]
    /\ \E g \in Guilds :
          /\ store_guild[g] = [state |-> "ok", blacklisted |-> {2}]
          /\ MemList(blacklisted, g) = {2}
    /\ Drained

\* ========================================================================
\* Command permission checks against a loaded auth record (SpecPerm)
\* ========================================================================
PermCommands == {"ban", "play"}     \* one built-in sensitive name, one other
PermRoles == {10}

\* AuthCog._normalize_override: the shape of every stored override record
OverrideRecords ==
    [disabled : BOOLEAN, allowed_users : {{}, {1}, {2}}, allowed_roles : SUBSET PermRoles]

\* guild -> command -> override maps
CommandMaps ==
    UNION {[cmds -> OverrideRecords] : cmds \in (SUBSET PermCommands) \ {{}}}

\* The command_overrides map after _load_auth_data: records of the guild
\* and, from a legacy file migrated without known guilds, under "_global"
LoadedOverrides ==
    UNION {[keys -> CommandMaps] : keys \in SUBSET (Guilds \cup {"_global"})}

\* the record as loaded from the store or migrated from the legacy file
PermInit ==
    /\ guilds = Guilds
    /\ admins \in SUBSET (AuthUsers \ {BotOwner})
    /\ blacklisted = EmptyMap
    /\ command_overrides \in LoadedOverrides
    /\ save_queue = <<>>
    /\ queued_save_ops = {}
    /\ deleted_guilds = {}
    /\ store_guild = [g \in Guilds |-> AbsentDb]
    /\ store_admins = {}
    /\ kPc = "idle" /\ kOp = GlobalOp /\ kLive = FALSE /\ kVal = {}
    /\ qSnap = <<>> /\ kSnap = {} /\ kSeen = {}
    /\ evPc = "idle" /\ evGuild = "None"
    /\ lastCheck = [guild |-> "None", cmd |-> "None", author |-> 0, roles |-> {},
                    allowed |-> TRUE]
    /\ enqPending = {}
    /\ removed = {}
    /\ ownerActed = FALSE

\* One call of check_command_permission(ctx); lastCheck keeps its arguments
\* and its result
CheckPermission(guild_key, cmd_name, author, author_roles) ==
    /\ lastCheck' = [guild |-> guild_key, cmd |-> cmd_name, author |-> author,
                     roles |-> author_roles,
                     allowed |-> CheckCommandPermission(guild_key, cmd_name,
                                                        author, author_roles)]
    /\ UNCHANGED <<guilds, admins, blacklisted, command_overrides, queueVars,
                   store_guild, store_admins, workerVars, evPc, evGuild, removed,
                   ownerActed>>
    /\ UNCHANGED outsideAuth

PermNext ==
    \E g \in Guilds, c \in PermCommands, a \in AuthUsers, r \in SUBSET PermRoles :
        CheckPermission(g, c, a, r)

Checked == lastCheck.guild # "None"
HasGuildRecord(guild_key, cmd_name) ==
    /\ guild_key \in DOMAIN command_overrides
    /\ cmd_name \in DOMAIN command_overrides[guild_key]
HasLegacyRecord(cmd_name) ==
    /\ "_global" \in DOMAIN command_overrides
    /\ cmd_name \in DOMAIN command_overrides["_global"]
DefaultPolicyHolds ==
    lastCheck.allowed <=> lastCheck.cmd \notin ADMIN_COMMANDS

\* C6 as stated: when the guild's own map has no record for the command, an
\* invoker who is neither admin nor owner is denied exactly the built-in
\* sensitive commands.
C6_DefaultPolicyStated ==
    (/\ Checked
     /\ ~HasGuildRecord(lastCheck.guild, lastCheck.cmd)
     /\ ~IsAdmin(lastCheck.author))
        => DefaultPolicyHolds

\* C6 amended: the same when, in addition, no record for the command is left
\* under the legacy "_global" key that get_command_override falls back to.
C6_DefaultPolicy ==
    (/\ Checked
     /\ ~HasGuildRecord(lastCheck.guild, lastCheck.cmd)
     /\ ~HasLegacyRecord(lastCheck.cmd)
     /\ ~IsAdmin(lastCheck.author))
        => DefaultPolicyHolds

C6_Witness ==
    /\ Checked
    /\ lastCheck.cmd = "ban"
    /\ ~HasGuildRecord(lastCheck.guild, "ban")
    /\ ~HasLegacyRecord("ban")
    /\ HasGuildRecord(lastCheck.guild, "play")
    /\ ~IsAdmin(lastCheck.author)
    /\ ~lastCheck.allowed

\* C7: a check of the owner on a command whose override record in the guild
\* has disabled = true is allowed.
C7_OwnerBypass ==
    (/\ Checked
     /\ IsOwner(lastCheck.author)
     /\ HasGuildRecord(lastCheck.guild, lastCheck.cmd)
     /\ command_overrides[lastCheck.guild][lastCheck.cmd].disabled)
        => lastCheck.allowed

C7_Witness ==
    /\ Checked
    /\ IsOwner(lastCheck.author)
    /\ HasGuildRecord(lastCheck.guild, lastCheck.cmd)
    /\ command_overrides[lastCheck.guild][lastCheck.cmd].disabled
    /\ command_overrides[lastCheck.guild][lastCheck.cmd].allowed_users = {2}
    /\ lastCheck.allowed

\* The decision read off an override record o in the order owner, disabled,
\* allowed users, allowed roles, each test final when it applies.
FirstListDecides(o, author, author_roles) ==
    IF IsOwner(author) THEN TRUE
    ELSE IF o.disabled THEN FALSE
    ELSE IF o.allowed_users # {} THEN author \in o.allowed_users
    ELSE IF o.allowed_roles # {} THEN author_roles \cap o.allowed_roles # {}
    ELSE TRUE

\* C15: when the guild has an override record for the command, the result of
\* check_command_permission is: owner allowed; else disabled denied; else a
\* non-empty allowed-user list alone decides (allowed iff the invoker is in
\* it); else a non-empty allowed-role list decides; else allowed.
C15_OverrideDecision ==
    (Checked /\ HasGuildRecord(lastCheck.guild, lastCheck.cmd))
        => lastCheck.allowed =
              FirstListDecides(command_overrides[lastCheck.guild][lastCheck.cmd],
                               lastCheck.author, lastCheck.roles)

\* ========================================================================
\* VoiceHandler / VoiceCog: connection lifecycle of one guild (SpecVoice)
\* ========================================================================
NoTask == 0
NoConn == 0

\* VoiceHandler.__init__ (handler.py 45-82) before any connection
VoiceInit ==
    /\ vcCur = NoConn
    /\ nextConn = 1
    /\ hasSink = FALSE
    /\ taskReg = NoTask
    /\ keepReg = NoTask
    /\ segRunning = {}
    /\ keepRunning = {}
    /\ nextTask = 1
    /\ manual_disconnect = FALSE
    /\ vsEvents = <<>>
    /\ leavePc = "idle"
    /\ joinPc = "idle"
    /\ rejoins = <<>>
    /\ rejoinStarted = {}
    /\ lastPoller = NoTask
    /\ lastPing = NoTask
    /\ leaveCalls = 0
    /\ leaveOut = "none"

\* task.cancel() on a registry entry: the task, asleep in its loop, never
\* runs again
CancelTask(running, id) == running \ {id}
CancelKeep(running, id) == {k \in running : k.id # id}

\* VoiceHandler._start_keep_alive: stop the registered task, start task id
\* on connection vc
StartKeepAlive(id, vc) ==
    /\ keepRunning' = CancelKeep(keepRunning, keepReg) \cup {[id |-> id, vc |-> vc]}
    /\ keepReg' = id

\* handler.py 103-128: connect or move, new sink, cancel the registered
\* segmentation task, start and register a new one, restart keep-alive
JoinChannel ==
    /\ joinPc = "idle"
    /\ nextTask + 1 <= MaxTasks
    /\ LET vc == IF vcCur # NoConn THEN vcCur ELSE nextConn IN
       /\ vcCur' = vc
       /\ nextConn' = IF vcCur # NoConn THEN nextConn ELSE nextConn + 1
       /\ hasSink' = TRUE
       /\ segRunning' = CancelTask(segRunning, taskReg) \cup {nextTask}
       /\ taskReg' = nextTask
       /\ StartKeepAlive(nextTask + 1, vc)
    /\ nextTask' = nextTask + 2
    /\ joinPc' = "greeting"
    /\ UNCHANGED <<manual_disconnect, vsEvents, leavePc, rejoins, rejoinStarted,
                   lastPoller, lastPing>>
    /\ UNCHANGED outsideVoice
    /\ UNCHANGED <<leaveCalls, leaveOut>>

\* handler.py 130-138: after the awaited send and greeting
JoinFinish ==
    /\ joinPc = "greeting"
    /\ manual_disconnect' = FALSE
    /\ joinPc' = "idle"
    /\ UNCHANGED <<vcCur, nextConn, hasSink, taskReg, keepReg, segRunning,
                   keepRunning, nextTask, vsEvents, leavePc, rejoins,
                   rejoinStarted, lastPoller, lastPing>>
    /\ UNCHANGED outsideVoice
    /\ UNCHANGED <<leaveCalls, leaveOut>>

\* Variant of the refusal that also sets the manual-disconnect flag
LeaveNotConnectedSetsFlag ==
    /\ vcCur = NoConn
    /\ leaveCalls < MaxLeaves
    /\ leaveCalls' = leaveCalls + 1
    /\ leaveOut' = "not_connected"
    /\ manual_disconnect' = TRUE
    /\ UNCHANGED <<vcCur, nextConn, hasSink, taskReg, keepReg, segRunning,
                   keepRunning, nextTask, vsEvents, leavePc, joinPc,
                   rejoins, rejoinStarted, lastPoller, lastPing>>
    /\ UNCHANGED outsideVoice

\* handler.py 155-157: no voice client: message, return False
LeaveNotConnected ==
    /\ vcCur = NoConn
    /\ leaveCalls < MaxLeaves
    /\ leaveCalls' = leaveCalls + 1
    /\ leaveOut' = "not_connected"
    /\ UNCHANGED <<vcCur, nextConn, hasSink, taskReg, keepReg, segRunning,
                   keepRunning, nextTask, manual_disconnect, vsEvents, leavePc,
                   joinPc, rejoins, rejoinStarted, lastPoller, lastPing>>
    /\ UNCHANGED outsideVoice

\* handler.py 155-180: cancel and unregister both tasks, drop the sink,
\* disconnect; Discord answers with a voice-state update of the bot
LeaveChannel ==
    /\ leavePc = "idle"
    /\ vcCur # NoConn
    /\ Len(vsEvents) < MaxEvents
    /\ segRunning' = CancelTask(segRunning, taskReg)
    /\ taskReg' = NoTask
    /\ keepRunning' = CancelKeep(keepRunning, keepReg)
    /\ keepReg' = NoTask
    /\ hasSink' = FALSE
    /\ vcCur' = NoConn
    /\ vsEvents' = Append(vsEvents, "leave")
    /\ leavePc' = "sending"
    /\ UNCHANGED <<nextConn, nextTask, manual_disconnect, joinPc, rejoins,
                   rejoinStarted, lastPoller, lastPing>>
    /\ UNCHANGED outsideVoice
    /\ leaveCalls < MaxLeaves
    /\ leaveCalls' = leaveCalls + 1
    /\ leaveOut' = "pending"

\* handler.py 181-186: after the awaited disconnect and send
LeaveFinish ==
    /\ leavePc = "sending"
    /\ manual_disconnect' = TRUE
    /\ leavePc' = "idle"
    /\ UNCHANGED <<vcCur, nextConn, hasSink, taskReg, keepReg, segRunning,
                   keepRunning, nextTask, vsEvents, joinPc, rejoins,
                   rejoinStarted, lastPoller, lastPing>>
    /\ UNCHANGED outsideVoice
    /\ leaveOut' = "left"
    /\ UNCHANGED leaveCalls

\* The connection drops without a command (network, host, moderator)
Drop ==
    /\ vcCur # NoConn
    /\ Len(vsEvents) < MaxEvents
    /\ vcCur' = NoConn
    /\ vsEvents' = Append(vsEvents, "drop")
    /\ UNCHANGED <<nextConn, hasSink, taskReg, keepReg, segRunning, keepRunning,
                   nextTask, manual_disconnect, leavePc, joinPc, rejoins,
                   rejoinStarted, lastPoller, lastPing>>
    /\ UNCHANGED outsideVoice
    /\ UNCHANGED <<leaveCalls, leaveOut>>

\* handler.py 555-560: the bot's own update with after.channel None
ShouldRejoin == ~manual_disconnect

HandleVoiceStateUpdate ==
    /\ vsEvents # <<>>
    /\ vsEvents' = Tail(vsEvents)
    /\ IF ShouldRejoin
       THEN /\ rejoins' = Append(rejoins, Head(vsEvents))
            /\ rejoinStarted' = rejoinStarted \cup {Head(vsEvents)}
       ELSE UNCHANGED <<rejoins, rejoinStarted>>
    /\ UNCHANGED <<vcCur, nextConn, hasSink, taskReg, keepReg, segRunning,
                   keepRunning, nextTask, manual_disconnect, leavePc, joinPc,
                   lastPoller, lastPing>>
    /\ UNCHANGED outsideVoice
    /\ UNCHANGED <<leaveCalls, leaveOut>>

\* handler.py 628-666 after the sleep: connect raises when a connection
\* exists (caught at 662); otherwise as join_channel, flag reset included
AttemptRejoin ==
    /\ rejoins # <<>>
    /\ rejoins' = Tail(rejoins)
    /\ IF vcCur # NoConn
       THEN UNCHANGED <<vcCur, nextConn, hasSink, taskReg, keepReg, segRunning,
                        keepRunning, nextTask, manual_disconnect>>
       ELSE /\ nextTask + 1 <= MaxTasks
            /\ vcCur' = nextConn
            /\ nextConn' = nextConn + 1
            /\ hasSink' = TRUE
            /\ segRunning' = CancelTask(segRunning, taskReg) \cup {nextTask}
            /\ taskReg' = nextTask
            /\ StartKeepAlive(nextTask + 1, nextConn)
            /\ nextTask' = nextTask + 2
            /\ manual_disconnect' = FALSE
    /\ UNCHANGED <<vsEvents, leavePc, joinPc, rejoinStarted, lastPoller, lastPing>>
    /\ UNCHANGED outsideVoice
    /\ UNCHANGED <<leaveCalls, leaveOut>>

\* voice_cog.py 296-333 (_ensure_voice_channel with no voice client): the
\* new task is registered over the old entry.  Called from on_ready and
\* on_guild_join, and from _enforce_voice_connection_loop (359-394) unless
\* manual_disconnect is set.
EnsureVoiceChannel(fromLoop) ==
    /\ fromLoop => ~manual_disconnect
    /\ vcCur = NoConn
    /\ nextTask + 1 <= MaxTasks
    /\ vcCur' = nextConn
    /\ nextConn' = nextConn + 1
    /\ hasSink' = TRUE
    /\ segRunning' = segRunning \cup {nextTask}
    /\ taskReg' = nextTask
    /\ StartKeepAlive(nextTask + 1, nextConn)
    /\ nextTask' = nextTask + 2
    /\ manual_disconnect' = FALSE
    /\ UNCHANGED <<vsEvents, leavePc, joinPc, rejoins, rejoinStarted, lastPoller,
                   lastPing>>
    /\ UNCHANGED outsideVoice
    /\ UNCHANGED <<leaveCalls, leaveOut>>

\* handler.py 583-623 (_auto_join_and_play) when not yet in the channel:
\* connect if needed, restart keep-alive, reset the flag
AutoJoinAndPlay ==
    /\ nextTask <= MaxTasks
    /\ LET vc == IF vcCur # NoConn THEN vcCur ELSE nextConn IN
       /\ vcCur' = vc
       /\ nextConn' = IF vcCur # NoConn THEN nextConn ELSE nextConn + 1
       /\ StartKeepAlive(nextTask, vc)
    /\ nextTask' = nextTask + 1
    /\ manual_disconnect' = FALSE
    /\ UNCHANGED <<hasSink, taskReg, segRunning, vsEvents, leavePc, joinPc,
                   rejoins, rejoinStarted, lastPoller, lastPing>>
    /\ UNCHANGED outsideVoice
    /\ UNCHANGED <<leaveCalls, leaveOut>>

\* handler.py 199-217: one round of _process_audio_loop in task id
ProcessAudioLoop(id) ==
    /\ id \in segRunning
    /\ IF hasSink
       THEN /\ lastPoller' = id
            /\ UNCHANGED segRunning
       ELSE /\ segRunning' = segRunning \ {id}
            /\ UNCHANGED lastPoller
    /\ UNCHANGED <<vcCur, nextConn, hasSink, taskReg, keepReg, keepRunning,
                   nextTask, manual_disconnect, vsEvents, leavePc, joinPc,
                   rejoins, rejoinStarted, lastPing>>
    /\ UNCHANGED outsideVoice
    /\ UNCHANGED <<leaveCalls, leaveOut>>

\* handler.py 792-803: one round of _keep_alive_loop in task k
KeepAliveLoop(k) ==
    /\ k \in keepRunning
    /\ IF k.vc = vcCur
       THEN /\ lastPing' = k.id
            /\ UNCHANGED keepRunning
       ELSE /\ keepRunning' = keepRunning \ {k}
            /\ UNCHANGED lastPing
    /\ UNCHANGED <<vcCur, nextConn, hasSink, taskReg, keepReg, segRunning,
                   nextTask, manual_disconnect, vsEvents, leavePc, joinPc,
                   rejoins, rejoinStarted, lastPoller>>
    /\ UNCHANGED outsideVoice
    /\ UNCHANGED <<leaveCalls, leaveOut>>

VoiceNext ==
    \/ JoinChannel
    \/ JoinFinish
    \/ LeaveNotConnected
    \/ LeaveChannel
    \/ LeaveFinish
    \/ Drop
    \/ HandleVoiceStateUpdate
    \/ AttemptRejoin
    \/ \E fromLoop \in BOOLEAN : EnsureVoiceChannel(fromLoop)
    \/ AutoJoinAndPlay
    \/ \E id \in 1..MaxTasks : ProcessAudioLoop(id)
    \/ \E k \in keepRunning : KeepAliveLoop(k)

\* C3: no _attempt_rejoin is ever started by the voice-state update of a
\* disconnection that leave_channel made.
C3_NoRejoinAfterLeave == "leave" \notin rejoinStarted

\* C10: at most one segmentation task and at most one keep-alive task run,
\* and a running task is the one registered for the guild.
C10_OneTaskPerGuild ==
    /\ Cardinality(segRunning) <= 1
    /\ Cardinality(keepRunning) <= 1
    /\ \A id \in segRunning : id = taskReg
    /\ \A k \in keepRunning : k.id = keepReg

\* C13: a leave_channel invoked while the guild has no voice connection
\* answers "not connected" and leaves tasks, sinks, keep-alive tasks and the
\* manual-disconnect flag as they are, on the first and on every later call.
C13_Step ==
    (leaveCalls' # leaveCalls /\ vcCur = NoConn)
        => /\ leaveOut' = "not_connected"
           /\ UNCHANGED <<taskReg, hasSink, keepReg, segRunning, keepRunning,
                          manual_disconnect, vcCur, leavePc>>
NoReq == 0
SpeakReqs == 1..MaxSpeaks

TtsInit ==
    /\ tConnected = TRUE
    /\ tPlaying = NoReq
    /\ tEnded = {}
    /\ tNext = 1
    /\ tPc = [r \in SpeakReqs |-> "idle"]
    /\ tFile = [r \in SpeakReqs |-> "none"]
    /\ tCreated = {}
    /\ tErr = [r \in SpeakReqs |-> FALSE]
    /\ tResult = [r \in SpeakReqs |-> "none"]
    /\ tFail = [r \in SpeakReqs |-> "none"]
    /\ tOverlap = {}

\* speak returns False for reason why
ReturnFalse(r, why) ==
    /\ tResult' = [tResult EXCEPT ![r] = "false"]
    /\ tFail' = [tFail EXCEPT ![r] = why]
    /\ tPc' = [tPc EXCEPT ![r] = "done"]

\* Lines 44-54: connection test, then stop of whatever plays; the call
\* then awaits (sleep, communicate.save)
SpeakStart(r) ==
    /\ r = tNext
    /\ r \in SpeakReqs
    /\ tNext' = tNext + 1
    /\ tOverlap' = IF \E q \in SpeakReqs : q < r /\ tPc[q] # "done"
                   THEN tOverlap \cup {r} ELSE tOverlap
    /\ IF ~tConnected
       THEN /\ ReturnFalse(r, "not_connected")
            /\ UNCHANGED <<tPlaying, tEnded>>
       ELSE /\ tPc' = [tPc EXCEPT ![r] = "gen"]
            /\ IF tPlaying # NoReq
               THEN /\ tEnded' = tEnded \cup {tPlaying}
                    /\ tPlaying' = NoReq
               ELSE UNCHANGED <<tPlaying, tEnded>>
            /\ UNCHANGED <<tResult, tFail>>
    /\ UNCHANGED <<tConnected, tFile, tCreated, tErr>>
    /\ UNCHANGED outsideTts

\* voice_client.play (lines 96-99) raises when not connected or when a
\* source is already playing
PlayRaises == ~tConnected \/ tPlaying # NoReq

\* Lines 68-99 and 109-116, from the return of communicate.save to the
\* wait on playback_done: generation raised, or left an empty file, or a
\* file that is handed to voice_client.play
GenerateDone(r, outcome) ==
    /\ tPc[r] = "gen"
    /\ tCreated' = tCreated \cup {r}
    /\ IF outcome = "error"
       THEN /\ ReturnFalse(r, "gen_error")
            /\ UNCHANGED <<tFile, tPlaying>>
       ELSE IF outcome = "empty"
       THEN /\ tFile' = [tFile EXCEPT ![r] = "empty"]
            /\ ReturnFalse(r, "empty")
            /\ UNCHANGED tPlaying
       ELSE IF PlayRaises
       THEN /\ ReturnFalse(r, IF tConnected THEN "busy" ELSE "not_connected")
            /\ UNCHANGED <<tFile, tPlaying>>
       ELSE /\ tFile' = [tFile EXCEPT ![r] = "ok"]
            /\ tPlaying' = r
            /\ tPc' = [tPc EXCEPT ![r] = "waiting"]
            /\ UNCHANGED <<tResult, tFail>>
    /\ UNCHANGED <<tConnected, tEnded, tNext, tErr, tOverlap>>
    /\ UNCHANGED outsideTts

\* The player reaches the end of the source or fails
PlaybackEnd(err) ==
    /\ tPlaying # NoReq
    /\ tEnded' = tEnded \cup {tPlaying}
    /\ tErr' = [tErr EXCEPT ![tPlaying] = err]
    /\ tPlaying' = NoReq
    /\ UNCHANGED <<tConnected, tNext, tPc, tFile, tCreated, tResult, tFail, tOverlap>>
    /\ UNCHANGED outsideTts

\* Lines 81-93 and 102-107: after_playback removes the file and sets the
\* event; speak returns
AfterPlayback(r) ==
    /\ r \in tEnded
    /\ tEnded' = tEnded \ {r}
    /\ tFile' = [tFile EXCEPT ![r] = "none"]
    /\ IF tErr[r]
       THEN ReturnFalse(r, "play_error")
       ELSE /\ tResult' = [tResult EXCEPT ![r] = "true"]
            /\ tPc' = [tPc EXCEPT ![r] = "done"]
            /\ UNCHANGED tFail
    /\ UNCHANGED <<tConnected, tPlaying, tNext, tCreated, tErr, tOverlap>>
    /\ UNCHANGED outsideTts

\* The voice connection is closed; a playing source ends
VcDisconnect ==
    /\ tConnected
    /\ tConnected' = FALSE
    /\ IF tPlaying # NoReq
       THEN /\ tEnded' = tEnded \cup {tPlaying}
            /\ tPlaying' = NoReq
       ELSE UNCHANGED <<tPlaying, tEnded>>
    /\ UNCHANGED <<tNext, tPc, tFile, tCreated, tErr, tResult, tFail, tOverlap>>
    /\ UNCHANGED outsideTts

TtsNext ==
    \/ \E r \in SpeakReqs : SpeakStart(r)
    \/ \E r \in SpeakReqs, outcome \in {"ok", "empty", "error"} : GenerateDone(r, outcome)
    \/ \E err \in BOOLEAN : PlaybackEnd(err)
    \/ \E r \in SpeakReqs : AfterPlayback(r)
    \/ VcDisconnect

\* C11: a speak request invoked while an earlier one had not returned is
\* never refused by voice_client.play because audio is already playing.
C11_LaterPreempts ==
    \A r \in tOverlap : tFail[r] # "busy"

\* C12: once speak has returned after its temp file was created, the file
\* does not exist.
C12_TempFileRemoved ==
    \A r \in tCreated : tPc[r] = "done" => tFile[r] = "none"

\* ========================================================================
\* Reaction-role verification (SpecReact)
\* ========================================================================
ReactGuild == "g1"
ReactMembers == {2, 9}          \* guild members that react
BotMembers == {9}               \* members with member.bot
Emojis == {"e1", "e2", "e3"}
NoRole == 0

\* auth_data["reaction_roles"][guild]["options"]: the role mapped to an
\* emoji, NoRole for an emoji that is not mapped
RoleOf(emoji) == IF emoji = "e1" THEN 20 ELSE IF emoji = "e2" THEN 21 ELSE NoRole
MappedRoles == {RoleOf(e) : e \in Emojis} \ {NoRole}

ReactInit ==
    /\ verified_users = EmptyMap
    /\ rrRoles = [m \in ReactMembers |-> {}]
    /\ rrCache = [m \in ReactMembers |-> {}]
    /\ rrReacted = [m \in ReactMembers |-> {}]
    /\ rrPc = "idle"
    /\ rrMember = 0
    /\ rrRole = NoRole
    /\ rrDone = "no"

authRestVars == <<guilds, admins, blacklisted, command_overrides, store_guild,
                  store_admins, workerVars, evPc, evGuild, lastCheck, removed,
                  ownerActed>>

\* Lines 2101-2106: record the member as verified and save the guild
PersistVerified(member) ==
    LET vu0 == SetDefault(verified_users, ReactGuild) IN
    IF member \notin vu0[ReactGuild]
    THEN /\ verified_users' = [vu0 EXCEPT ![ReactGuild] = @ \cup {member}]
         /\ SaveAuthData(<<GuildOp(ReactGuild)>>, blacklisted, deleted_guilds)
    ELSE /\ verified_users' = vu0
         /\ UNCHANGED queueVars

\* AuthCog.on_raw_reaction_add up to the await of member.add_roles (lines
\* 2057-2092); without an await the listener runs to its end
ReactionAdd(member, emoji) ==
    /\ rrPc = "idle"
    /\ emoji \notin rrReacted[member]
    /\ rrReacted' = [rrReacted EXCEPT ![member] = @ \cup {emoji}]
    /\ IF member \in BotMembers \/ RoleOf(emoji) = NoRole
       THEN UNCHANGED <<verified_users, rrPc, rrMember, rrRole, queueVars>>
       ELSE IF RoleOf(emoji) \notin rrCache[member]
       THEN /\ rrPc' = "adding"
            /\ rrMember' = member
            /\ rrRole' = RoleOf(emoji)
            /\ UNCHANGED <<verified_users, queueVars>>
       ELSE /\ PersistVerified(member)
            /\ UNCHANGED <<rrPc, rrMember, rrRole>>
    /\ UNCHANGED <<rrRoles, rrCache, rrDone, authRestVars>>
    /\ UNCHANGED outsideReact

\* Discord carries out the role request of the listener in flight, or
\* rejects it
RoleRequest(ok) ==
    /\ rrPc \in {"adding", "removing"}
    /\ rrDone = "no"
    /\ rrDone' = IF ok THEN "ok" ELSE "raised"
    /\ rrRoles' = IF ~ok THEN rrRoles
                  ELSE IF rrPc = "adding"
                       THEN [rrRoles EXCEPT ![rrMember] = @ \cup {rrRole}]
                       ELSE [rrRoles EXCEPT ![rrMember] = @ \ {rrRole}]
    /\ UNCHANGED <<verified_users, rrCache, rrReacted, rrPc, rrMember, rrRole,
                   queueVars, authRestVars>>
    /\ UNCHANGED outsideReact

\* The member-update event of the gateway reaches the client's cache
MemberUpdate(member) ==
    /\ rrCache[member] # rrRoles[member]
    /\ rrCache' = [rrCache EXCEPT ![member] = rrRoles[member]]
    /\ UNCHANGED <<verified_users, rrRoles, rrReacted, rrPc, rrMember, rrRole,
                   rrDone, queueVars, authRestVars>>
    /\ UNCHANGED outsideReact

\* Lines 2093-2106 after add_roles returned or raised
ReactionAddEnd ==
    /\ rrPc = "adding"
    /\ rrDone # "no"
    /\ IF rrDone = "ok" \/ rrRole \in rrCache[rrMember]
       THEN PersistVerified(rrMember)
       ELSE UNCHANGED <<verified_users, queueVars>>
    /\ rrPc' = "idle" /\ rrMember' = 0 /\ rrRole' = NoRole /\ rrDone' = "no"
    /\ UNCHANGED <<rrRoles, rrCache, rrReacted, authRestVars>>
    /\ UNCHANGED outsideReact

\* AuthCog.on_raw_reaction_remove up to the await of member.remove_roles
\* (lines 2116-2149)
ReactionRemove(member, emoji) ==
    /\ rrPc = "idle"
    /\ emoji \in rrReacted[member]
    /\ rrReacted' = [rrReacted EXCEPT ![member] = @ \ {emoji}]
    /\ IF member \notin BotMembers /\ RoleOf(emoji) # NoRole
          /\ RoleOf(emoji) \in rrCache[member]
       THEN /\ rrPc' = "removing"
            /\ rrMember' = member
            /\ rrRole' = RoleOf(emoji)
       ELSE UNCHANGED <<rrPc, rrMember, rrRole>>
    /\ UNCHANGED <<verified_users, rrRoles, rrCache, rrDone, queueVars, authRestVars>>
    /\ UNCHANGED outsideReact

\* Line 2160: any(r.id in verify_role_ids for r in member.roles), read from
\* the cached member
StillVerified(member) == rrCache[member] \cap MappedRoles # {}

\* Lines 2150-2164 after remove_roles returned or raised
ReactionRemoveEnd ==
    /\ rrPc = "removing"
    /\ rrDone # "no"
    /\ IF /\ rrDone = "ok"
          /\ ~StillVerified(rrMember)
          /\ ReactGuild \in DOMAIN verified_users
          /\ rrMember \in verified_users[ReactGuild]
       THEN /\ verified_users' = [verified_users EXCEPT ![ReactGuild] = @ \ {rrMember}]
            /\ SaveAuthData(<<GuildOp(ReactGuild)>>, blacklisted, deleted_guilds)
       ELSE UNCHANGED <<verified_users, queueVars>>
    /\ rrPc' = "idle" /\ rrMember' = 0 /\ rrRole' = NoRole /\ rrDone' = "no"
    /\ UNCHANGED <<rrRoles, rrCache, rrReacted, authRestVars>>
    /\ UNCHANGED outsideReact

ReactNext ==
    \/ \E m \in ReactMembers, e \in Emojis : ReactionAdd(m, e)
    \/ \E ok \in BOOLEAN : RoleRequest(ok)
    \/ \E m \in ReactMembers : MemberUpdate(m)
    \/ ReactionAddEnd
    \/ \E m \in ReactMembers, e \in Emojis : ReactionRemove(m, e)
    \/ ReactionRemoveEnd
    \/ WorkerGet
    \/ WorkerCheck
    \/ WorkerPayload
    \/ WorkerInit
    \/ WorkerWrite
    \/ WorkerFinally

IsVerifiedIn(vu, member) ==
    ReactGuild \in DOMAIN vu /\ member \in vu[ReactGuild]

\* C14: a reaction-add listener whose role request succeeded leaves the
\* member with the role and in verified_users; a reaction-remove listener
\* whose role request succeeded, for a member left with no mapped role,
\* leaves the member without the role and out of verified_users.
C14_Step ==
    /\ (rrPc = "adding" /\ rrDone = "ok" /\ rrPc' = "idle")
          => (rrRole \in rrRoles'[rrMember] /\ IsVerifiedIn(verified_users', rrMember))
    /\ (/\ rrPc = "removing" /\ rrDone = "ok" /\ rrPc' = "idle"
        /\ rrRoles[rrMember] \cap MappedRoles = {})
          => (rrRole \notin rrRoles'[rrMember] /\ ~IsVerifiedIn(verified_users', rrMember))
C14_RoundTrip == [][C14_Step]_vars

\* ========================================================================
\* Command dispatch through the global check (SpecGate)
\* ========================================================================
GateInit ==
    /\ only_me_user_id = NoUser
    /\ lastGate = [cmd |-> "None", author |-> 0, blacklisted |-> FALSE,
                   allowed |-> FALSE, ran |-> FALSE]

\* what a dispatch leaves in lastGate; the command body runs when the global
\* check and the check of the command's cog both admit it
Dispatched(guild_key, cmd_name, author, cog_admits) ==
    [cmd |-> cmd_name, author |-> author,
     blacklisted |-> IsBlacklisted(author, guild_key),
     allowed |-> GlobalAuthCheck(guild_key, cmd_name, author, {}),
     ran |-> GlobalAuthCheck(guild_key, cmd_name, author, {}) /\ cog_admits]

\* !onlyme: AuthCog.only_me_mode behind both checks
OnlyMeMode(guild_key, author) ==
    LET d == Dispatched(guild_key, "onlyme", author,
                        CogCheck(guild_key, "onlyme", author, {})) IN
    /\ guild_key \in guilds
    /\ lastGate' = d
    /\ only_me_user_id' = IF d.ran /\ (IsAdmin(author) \/ author = GuildOwner)
                          THEN author ELSE only_me_user_id
    /\ UNCHANGED authVars
    /\ UNCHANGED outsideGate

\* !openall: AuthCog.open_all_mode behind both checks
OpenAllMode(guild_key, author) ==
    LET d == Dispatched(guild_key, "openall", author,
                        CogCheck(guild_key, "openall", author, {}))
        can_unlock == \/ only_me_user_id = NoUser
                      \/ author = only_me_user_id
                      \/ IsAdmin(author)
                      \/ author = GuildOwner
    IN
    /\ guild_key \in guilds
    /\ lastGate' = d
    /\ only_me_user_id' = IF d.ran /\ can_unlock THEN NoUser ELSE only_me_user_id
    /\ UNCHANGED authVars
    /\ UNCHANGED outsideGate

\* a command of a cog that has no check of its own; its body is outside the
\* authorization state
DispatchOther(guild_key, cmd_name, author) ==
    /\ guild_key \in guilds
    /\ lastGate' = Dispatched(guild_key, cmd_name, author, TRUE)
    /\ UNCHANGED only_me_user_id
    /\ UNCHANGED authVars
    /\ UNCHANGED outsideGate

GateNext ==
    \/ \E g \in Guilds, a \in AuthUsers : OnlyMeMode(g, a)
    \/ \E g \in Guilds, a \in AuthUsers : OpenAllMode(g, a)
    \/ \E g \in Guilds, c \in PermCommands, a \in AuthUsers : DispatchOther(g, c, a)
    \/ \E g \in Guilds, a, m \in AuthUsers : BlacklistUser(g, a, m)
    \/ \E g \in Guilds, a, m \in AuthUsers : UnblacklistUser(g, a, m)
    \/ \E g \in Guilds, a, m \in AuthUsers : AddAdmin(g, a, m)
    \/ \E g \in Guilds, a, m \in AuthUsers : RemoveAdmin(g, a, m)
    \/ WorkerGet
    \/ WorkerSaveGlobal
    \/ WorkerCheck
    \/ WorkerPayload
    \/ WorkerInit
    \/ WorkerWrite
    \/ WorkerFinally

\* C16: whenever a command is dispatched in a guild by an invoker who is
\* blacklisted there, global_auth_check returns False.
C16_BlacklistedDenied ==
    (lastGate.cmd # "None" /\ lastGate.blacklisted) => ~lastGate.allowed

GateCommands == PermCommands \cup {"onlyme", "openall"}

\* C35: while the only-me lock is set, the global check admits a command
\* only when the invoker is the lock owner, with the single exception of
\* openall invoked by a bot admin or the server owner; every other
\* invocation, including one by the bot owner, is denied.
C35_LockAdmitsOwnerOnly ==
    only_me_user_id # NoUser
        => \A g \in Guilds, c \in GateCommands, a \in AuthUsers, r \in SUBSET PermRoles :
              GlobalAuthCheck(g, c, a, r)
                 => \/ a = only_me_user_id
                    \/ c = "openall" /\ (IsAdmin(a) \/ a = GuildOwner)

\* C35 witness: the server owner holds the lock and a command of the bot
\* owner, who is not blacklisted, was denied.
C35_Witness ==
    /\ only_me_user_id = GuildOwner
    /\ lastGate.cmd \in PermCommands
    /\ lastGate.author = BotOwner
    /\ ~lastGate.blacklisted
    /\ ~lastGate.allowed

\* ========================================================================
\* Wake word and voice command grammar (SpecCmd)
\* ========================================================================
\* Transcripts are sequences of words.  No word of the vocabulary extends
\* another by further letters, so a regex that matches a prefix of the text
\* or a whole word (\b) is decided word by word.
Words == {"manga", "Manga", "leave", "please", "style", "voice", "mute", "hello"}
Transcripts == UNION {[1..n -> Words] : n \in 0..MaxWords}
NumVoices == 4          \* len(MANGA_VOICES)

\* str.lower() on a word, and on a text
Lower(w) == IF w = "Manga" THEN "manga" ELSE w
LowerText(text) == [i \in DOMAIN text |-> Lower(text[i])]

\* A trigger test that takes every transcript as addressed to the bot
HasTriggerAnyText(text) == text # <<>>

\* VoiceHandler._has_trigger: ^manga\b or \bmanga\b
HasTrigger(text) == \E i \in DOMAIN text : text[i] = "manga"

\* VoiceHandler._remove_trigger: re.sub(^manga[,\s]*, '') and strip()
RemoveTrigger(text) ==
    IF text # <<>> /\ Head(text) = "manga" THEN Tail(text) ELSE text

\* the alternatives of the leave pattern ^(leave|disconnect|dc|exit|bye)
LeaveWords == {"leave", "disconnect", "dc", "exit", "bye"}

\* re.match(commands['leave'], text): the text begins with an alternative
MatchesLeave(text) == text # <<>> /\ Head(text) \in LeaveWords

\* VoiceHandler._parse_and_execute_command: the command the text is taken
\* for, in the order of the tests; "none" when the method returns None
ParseCommand(text) ==
    IF MatchesLeave(text) THEN "leave"
    ELSE IF \/ (Len(text) >= 2 /\ text[1] = "change" /\ text[2] = "voice")
            \/ text = <<"voice">>
         THEN "voice"
    ELSE IF Len(text) >= 2 /\ text[1] = "mute" THEN "mute"
    ELSE "none"

NoOut == [route |-> "none", parsed |-> FALSE, ai |-> FALSE, sent |-> FALSE,
          spoken |-> FALSE]

CmdInit ==
    /\ cSession = FALSE
    /\ cManual = FALSE
    /\ current_voice_index = 0
    /\ cProcessing = FALSE
    /\ cPc = "idle"
    /\ cText = <<>>
    /\ cOut = NoOut

\* VoiceHandler.join_channel
JoinVoice ==
    /\ cPc = "idle"
    /\ ~cSession
    /\ cSession' = TRUE
    /\ cManual' = FALSE
    /\ UNCHANGED <<current_voice_index, cProcessing, cPc, cText, cOut>>
    /\ UNCHANGED outsideCmd

\* _process_audio_loop: get_ready_segments hands a segment of the speaker to
\* a new _process_segment task
SegmentTaken ==
    /\ cPc = "idle"
    /\ cSession
    /\ cPc' = "segment"
    /\ cProcessing' = TRUE
    /\ cOut' = NoOut
    /\ cText' = <<>>
    /\ UNCHANGED <<cSession, cManual, current_voice_index>>
    /\ UNCHANGED outsideCmd

\* _process_segment lines 236-240: rms < MIN_RMS, and the finally block
SegmentQuiet ==
    /\ cPc = "segment"
    /\ cPc' = "idle"
    /\ cProcessing' = FALSE
    /\ cOut' = [NoOut EXCEPT !.route = "quiet"]
    /\ UNCHANGED <<cSession, cManual, current_voice_index, cText>>
    /\ UNCHANGED outsideCmd

\* VoiceHandler._respond: the embed is sent; the reply is spoken when the
\* voice client is still connected
Respond(out, connected) == [out EXCEPT !.sent = TRUE, !.spoken = connected]

\* _process_segment from the transcription on, with its finally block
ProcessSegment(text) ==
    LET text_lower == LowerText(text)
        command_text == RemoveTrigger(text_lower)
        cmd == ParseCommand(command_text)
    IN
    /\ cPc = "segment"
    /\ cPc' = "idle"
    /\ cText' = text
    /\ cProcessing' = FALSE
    /\ IF text = <<>>
       THEN /\ cOut' = [NoOut EXCEPT !.route = "nospeech"]
            /\ UNCHANGED <<cSession, cManual, current_voice_index>>
       ELSE IF ~HasTrigger(text_lower)
       THEN /\ cOut' = [NoOut EXCEPT !.route = "ignored"]
            /\ UNCHANGED <<cSession, cManual, current_voice_index>>
       ELSE IF command_text = <<>>
       THEN /\ cOut' = Respond([NoOut EXCEPT !.route = "ack"], cSession)
            /\ UNCHANGED <<cSession, cManual, current_voice_index>>
       ELSE IF cmd = "leave"
       THEN \* leave_channel on the mock context, then _respond("Goodbye!")
            /\ cSession' = FALSE
            /\ cManual' = TRUE
            /\ cOut' = Respond([NoOut EXCEPT !.route = "leave", !.parsed = TRUE], FALSE)
            /\ UNCHANGED current_voice_index
       ELSE IF cmd = "voice"
       THEN /\ current_voice_index' = (current_voice_index + 1) % NumVoices
            /\ cOut' = Respond([NoOut EXCEPT !.route = "voice", !.parsed = TRUE], cSession)
            /\ UNCHANGED <<cSession, cManual>>
       ELSE IF cmd = "mute"
       THEN /\ cOut' = Respond([NoOut EXCEPT !.route = "mute", !.parsed = TRUE], cSession)
            /\ UNCHANGED <<cSession, cManual, current_voice_index>>
       ELSE /\ cOut' = Respond([NoOut EXCEPT !.route = "chat", !.parsed = TRUE,
                                             !.ai = TRUE], cSession)
            /\ UNCHANGED <<cSession, cManual, current_voice_index>>
    /\ UNCHANGED outsideCmd

CmdNext ==
    \/ JoinVoice
    \/ SegmentTaken
    \/ SegmentQuiet
    \/ \E text \in Transcripts : ProcessSegment(text)

LeavePleaseMangaStyle == <<"leave", "please", "manga", "style">>
MangaLeave == <<"manga", "leave">>

\* C18: a segment transcribed as 'leave please manga style' is not executed
\* as leave and the voice session is kept; a segment transcribed as
\* 'manga leave' is executed as leave and the AI responder is not invoked.
C18_LeaveGrammar ==
    /\ (cText = LeavePleaseMangaStyle /\ cPc = "idle")
          => (cOut.route # "leave" /\ cSession)
    /\ (cText = MangaLeave /\ cPc = "idle")
          => (cOut.route = "leave" /\ ~cOut.ai)

\* the trigger word is among the words of a transcript, in any case
WakeWordSpoken(text) == \E i \in DOMAIN text : text[i] \in {"manga", "Manga"}

\* C19: a step that finishes a segment whose transcript has words but not the
\* trigger word invokes neither the command parser nor the AI responder,
\* sends no message, speaks no reply, leaves the session, the
\* manual-disconnect flag and the voice selection as they were, and frees
\* the speaker for the next segment with nothing kept of the audio.
C19_Step ==
    (/\ cPc = "segment" /\ cPc' = "idle"
     /\ cText' # <<>> /\ ~WakeWordSpoken(cText'))
        => /\ cOut' = [NoOut EXCEPT !.route = "ignored"]
           /\ UNCHANGED <<cSession, cManual, current_voice_index>>
           /\ ~cProcessing'
C19_NoTriggerNoEffect == [][C19_Step]_vars

\* 'hello leave' was heard in a live session and ignored
C19_Witness ==
    /\ cPc = "idle"
    /\ cText = <<"hello", "leave">>
    /\ cOut.route = "ignored"
    /\ cSession
    /\ ~cManual
    /\ ~cProcessing

\* ========================================================================
\* Startup restore of the auth database from the backup root (SpecBoot)
\* ========================================================================
NoDb == 0           \* no *.db file under the DB root
FreshDb == 1        \* the empty databases AuthSQLiteStore creates
StampBase == 3      \* values of one position of a snapshot name
BackupKeep == 2     \* AUTH_DB_BACKUP_KEEP

\* datetime.utcnow().strftime(...): a fixed-width name, most significant
\* position first
NameOf(stamp) == <<stamp \div StampBase, stamp % StampBase>>

\* the order of sorted(..., key=lambda p: p.name) on two names
NameLess(a, b) == a[1] < b[1] \/ (a[1] = b[1] /\ a[2] < b[2])

\* the first of the snapshots sorted by name
OldestBackupSnapshot(S) == CHOOSE x \in S : \A y \in S : y = x \/ NameLess(x.name, y.name)

\* _latest_backup_snapshot: the first of the snapshots sorted by name in
\* reverse, for a backup root that has one
LatestBackupSnapshot(S) == CHOOSE x \in S : \A y \in S : y = x \/ NameLess(y.name, x.name)

\* _create_auth_backup_snapshot lines 162-168: all but the newest keep
\* snapshots are removed
Pruned(S) ==
    {x \in S : Cardinality({y \in S : NameLess(x.name, y.name)}) < BackupKeep}

\* the content of the snapshot that was made last, NoDb if there is none
LastMade(S) ==
    IF S = {} THEN NoDb
    ELSE (CHOOSE x \in S : \A y \in S : y.made <= x.made).content

BootInit ==
    /\ bPc = "down"
    /\ storeDb = NoDb
    /\ snaps = {}
    /\ bStamp = 0
    /\ nextContent = FreshDb + 1
    /\ bBoots = 0
    /\ atBoot = [store |-> NoDb, latest |-> NoDb, stamp |-> 0]
    /\ bLoaded = NoDb

\* main() up to setup_persistence, which ends with
\* _restore_auth_from_latest_backup
SetupPersistence ==
    /\ bPc = "down"
    /\ bBoots < MaxBoots
    /\ bBoots' = bBoots + 1
    /\ atBoot' = [store |-> storeDb, latest |-> LastMade(snaps), stamp |-> bStamp]
    /\ storeDb' = IF storeDb # NoDb THEN storeDb
                  ELSE IF snaps = {} THEN NoDb
                  ELSE LatestBackupSnapshot(snaps).content
    /\ bLoaded' = NoDb
    /\ bPc' = "persisted"
    /\ UNCHANGED <<snaps, bStamp, nextContent>>
    /\ UNCHANGED outsideBoot

\* setup_hook: AuthCog.__init__ builds the store (which creates global.db
\* when it is missing) and loads the record from it
BuildStore ==
    /\ bPc = "persisted"
    /\ storeDb' = IF storeDb = NoDb THEN FreshDb ELSE storeDb
    /\ bLoaded' = storeDb'
    /\ bPc' = "loaded"
    /\ UNCHANGED <<snaps, bStamp, nextContent, bBoots, atBoot>>
    /\ UNCHANGED outsideBoot

\* AuthCog.on_ready: the bootstrap pass, which writes the loaded record back
OnReady ==
    /\ bPc = "loaded"
    /\ bPc' = "ready"
    /\ UNCHANGED <<storeDb, snaps, bStamp, nextContent, bBoots, atBoot, bLoaded>>
    /\ UNCHANGED outsideBoot

\* a command changes the record and the save worker writes it
SaveData ==
    /\ bPc = "ready"
    /\ nextContent <= MaxContent
    /\ storeDb' = nextContent
    /\ nextContent' = nextContent + 1
    /\ UNCHANGED <<bPc, snaps, bStamp, bBoots, atBoot, bLoaded>>
    /\ UNCHANGED outsideBoot

\* auth_backup_task, started after setup_persistence:
\* _create_auth_backup_snapshot
CreateBackupSnapshot ==
    /\ bPc # "down"
    /\ storeDb # NoDb
    /\ bStamp < MaxStamp
    /\ snaps' = Pruned(snaps \cup {[name |-> NameOf(bStamp), content |-> storeDb,
                                     made |-> bStamp]})
    /\ bStamp' = bStamp + 1
    /\ UNCHANGED <<bPc, storeDb, nextContent, bBoots, atBoot, bLoaded>>
    /\ UNCHANGED outsideBoot

\* the process ends; the host may bring the next one up on an empty DB root
ProcessExit(db_root_lost) ==
    /\ bPc # "down"
    /\ bPc' = "down"
    /\ storeDb' = IF db_root_lost THEN NoDb ELSE storeDb
    /\ UNCHANGED <<snaps, bStamp, nextContent, bBoots, atBoot, bLoaded>>
    /\ UNCHANGED outsideBoot

BootNext ==
    \/ SetupPersistence
    \/ BuildStore
    \/ OnReady
    \/ SaveData
    \/ CreateBackupSnapshot
    \/ \E lost \in BOOLEAN : ProcessExit(lost)

\* C20: in a run that started on a DB root without database files while a
\* snapshot existed, the DB root holds the content of the snapshot made last
\* from the end of setup_persistence on until the store is opened, and the
\* store is opened on that content before the bootstrap pass; in a run that
\* started on a DB root with database files the store is opened on them.
C20_RestoreBeforeLoad ==
    /\ (bPc = "persisted" /\ atBoot.store = NoDb /\ atBoot.latest # NoDb)
          => storeDb = atBoot.latest
    /\ (bPc \in {"loaded", "ready"} /\ atBoot.store = NoDb /\ atBoot.latest # NoDb)
          => bLoaded = atBoot.latest
    /\ (bPc = "persisted" /\ atBoot.store # NoDb) => storeDb = atBoot.store
    /\ (bPc \in {"loaded", "ready"} /\ atBoot.store # NoDb) => bLoaded = atBoot.store

\* the bootstrap pass has run on the content of the newer of two snapshots
\* of different content, restored into a DB root that had lost its files
C20_Witness ==
    /\ bPc = "ready"
    /\ atBoot.store = NoDb
    /\ atBoot.latest # NoDb
    /\ bLoaded = atBoot.latest
    /\ \E x, y \in snaps :
          /\ x.made < y.made /\ y.made < atBoot.stamp
          /\ x.content # y.content /\ y.content = bLoaded

\* ========================================================================
\* The wake-word patterns on transcript texts (SpecWake)
\* ========================================================================
\* A text is a sequence of atoms: runs of letters and single separators.
\* Adjacent letter atoms form one word ("manga","ka" spells 'mangaka').
\* No run of the letter atoms spells 'manga' except the atom "manga", and
\* no letter atom but "manga" begins with 'manga', so the patterns are
\* decided atom by atom.  Texts are lower case, as text.lower() leaves them.
Letters == {"manga", "managa", "ka", "mute", "bob"}
Separators == {" ", ",", "."}
Atoms == Letters \cup Separators
Texts == UNION {[1..n -> Atoms] : n \in 0..MaxAtoms}

\* \b after position i and before position i: a word character on one side
\* only
BoundaryAfter(text, i) == i = Len(text) \/ text[i + 1] \notin Letters
BoundaryBefore(text, i) == i = 1 \/ text[i - 1] \notin Letters

RECURSIVE DropLeading(_, _)
\* the text after its longest prefix of atoms in S
DropLeading(text, S) ==
    IF text # <<>> /\ Head(text) \in S THEN DropLeading(Tail(text), S) ELSE text

RECURSIVE DropTrailing(_, _)
DropTrailing(text, S) ==
    IF text # <<>> /\ text[Len(text)] \in S
    THEN DropTrailing(SubSeq(text, 1, Len(text) - 1), S)
    ELSE text

\* str.strip()
Strip(text) == DropTrailing(DropLeading(text, {" "}), {" "})

\* VoiceHandler._has_trigger: re.search of ^manga\b, then of \bmanga\b
has_trigger(text) ==
    \/ (text # <<>> /\ text[1] = "manga" /\ BoundaryAfter(text, 1))
    \/ \E i \in DOMAIN text :
          text[i] = "manga" /\ BoundaryBefore(text, i) /\ BoundaryAfter(text, i)

\* VoiceHandler._remove_trigger: re.sub(r'^manga[,\s]*', '', text), strip()
remove_trigger(text) ==
    Strip(IF text # <<>> /\ Head(text) = "manga"
          THEN DropLeading(Tail(text), {",", " "})
          ELSE text)

WakeInit ==
    /\ wkText = <<>>
    /\ wkPc = "heard"
    /\ wkHas = FALSE
    /\ wkCmd = <<>>

\* _process_segment lines 258-266: text.lower().strip() and the trigger test
TestTrigger ==
    LET text_lower == Strip(wkText) IN
    /\ wkPc = "heard"
    /\ wkHas' = has_trigger(text_lower)
    /\ wkPc' = IF wkHas' THEN "triggered" ELSE "ignored"
    /\ UNCHANGED <<wkText, wkCmd>>
    /\ UNCHANGED outsideWake

\* _process_segment lines 268-276: the trigger is removed; an empty rest is
\* answered at once, any other goes to _parse_and_execute_command
TakeCommandText ==
    LET text_lower == Strip(wkText) IN
    /\ wkPc = "triggered"
    /\ wkCmd' = remove_trigger(text_lower)
    /\ wkPc' = IF wkCmd' = <<>> THEN "ack" ELSE "parser"
    /\ UNCHANGED <<wkText, wkHas>>
    /\ UNCHANGED outsideWake

WakeNext ==
    \/ TestTrigger
    \/ TakeCommandText

\* 'manga' stands in the text as a word of its own
StandaloneManga(text) ==
    \E i \in DOMAIN text :
       /\ text[i] = "manga"
       /\ (i > 1 => text[i - 1] \in Separators)
       /\ (i < Len(text) => text[i + 1] \in Separators)

\* the text without a leading word 'manga' and the separators after it
WithoutLeadingTrigger(text) ==
    IF text # <<>> /\ Head(text) = "manga"
          /\ (Len(text) > 1 => text[2] \in Separators)
    THEN DropLeading(Tail(text), Separators)
    ELSE text

MangaMuteBob == <<"manga", " ", "mute", " ", "bob">>
ILikeManaga == <<"ka", " ", "bob", " ", "managa">>
MangaCommaMute == <<"manga", ",", " ", "mute">>

\* C21: once the trigger test has run, its result is true exactly when the
\* transcript holds 'manga' as a word of its own (true for 'manga mute bob',
\* false for a text whose only near word is 'managa'), and the text handed
\* to the command parser is the transcript without a leading trigger word
\* and the punctuation and whitespace that follow it ('manga, mute' gives
\* 'mute').
C21_WakeWord ==
    /\ wkPc # "heard" => (wkHas <=> StandaloneManga(Strip(wkText)))
    /\ (wkPc # "heard" /\ wkText = MangaMuteBob) => wkHas
    /\ (wkPc # "heard" /\ wkText = ILikeManaga) => ~wkHas
    /\ wkPc = "parser" => wkCmd = Strip(WithoutLeadingTrigger(Strip(wkText)))
    /\ (wkPc = "parser" /\ wkText = MangaCommaMute) => wkCmd = <<"mute">>

\* ========================================================================
\* The voice mute command (SpecMute)
\* ========================================================================
\* Names are sequences of lower-case letters, as .lower() returns them.
Bob == 1
Bobby == 2
Carol == 3          \* the speaker
GuildMembers == {Bob, Bobby, Carol}
NoMember == 0

NameBob == <<"b", "o", "b">>
NameBobby == <<"b", "o", "b", "b", "y">>
NameCarol == <<"c", "a", "r", "o", "l">>
NameDan == <<"d", "a", "n">>

\* member.display_name.lower() and member.name.lower()
DisplayName(m) ==
    IF m = Bob THEN NameBob ELSE IF m = Bobby THEN NameBobby ELSE NameCarol
UserName(m) == DisplayName(m)

\* the names a speaker may say after 'mute'
SaidNames == {NameBob, NameBobby, NameCarol, NameDan}

\* Python's `needle in hay` on strings
IsSubstring(needle, hay) ==
    \E i \in 0..(Len(hay) - Len(needle)) :
        SubSeq(hay, i + 1, i + Len(needle)) = needle

\* VoiceHandler._find_member: the first member of guild.members whose
\* display name or username holds the name
FindMember(order, name) ==
    LET hits == {i \in DOMAIN order :
                    \/ IsSubstring(name, DisplayName(order[i]))
                    \/ IsSubstring(name, UserName(order[i]))}
    IN IF hits = {} THEN NoMember
       ELSE order[CHOOSE i \in hits : \A j \in hits : i <= j]

NoResp == [kind |-> "none", name |-> <<>>]

MuteInit ==
    /\ guild_members = <<Bob, Bobby, Carol>>
    /\ in_voice = {Carol}
    /\ muted = {}
    /\ can_mute = TRUE
    /\ muResp = NoResp

\* on_voice_state_update of another member: joins or leaves a voice channel
MemberVoiceChange(m) ==
    /\ m # Carol
    /\ in_voice' = IF m \in in_voice THEN in_voice \ {m} ELSE in_voice \cup {m}
    /\ muResp' = NoResp
    /\ UNCHANGED <<guild_members, muted, can_mute>>
    /\ UNCHANGED outsideMute

\* _parse_and_execute_command on 'mute <name>' or 'unmute <name>', through
\* _execute_mute, with the speaker as the cached invoking member; edit is
\* how target.edit(mute=...) ends when it is called
ExecuteMute(target_name, mute, edit) ==
    LET target == FindMember(guild_members, target_name) IN
    /\ IF ~can_mute
       THEN muResp' = [kind |-> "no_permission", name |-> <<>>] /\ UNCHANGED muted
       ELSE IF target = NoMember
       THEN muResp' = [kind |-> "not_found", name |-> target_name] /\ UNCHANGED muted
       ELSE IF target \notin in_voice
       THEN /\ muResp' = [kind |-> "not_in_voice", name |-> DisplayName(target)]
            /\ UNCHANGED muted
       ELSE IF edit = "ok"
       THEN /\ muted' = IF mute THEN muted \cup {target} ELSE muted \ {target}
            /\ muResp' = [kind |-> IF mute THEN "muted" ELSE "unmuted",
                          name |-> DisplayName(target)]
       ELSE /\ muResp' = [kind |-> edit, name |-> <<>>]
            /\ UNCHANGED muted
    /\ UNCHANGED <<guild_members, in_voice, can_mute>>
    /\ UNCHANGED outsideMute

MuteNext ==
    \/ \E m \in GuildMembers : MemberVoiceChange(m)
    \/ \E n \in SaidNames, mute \in BOOLEAN, edit \in {"ok", "forbidden", "failed"} :
          ExecuteMute(n, mute, edit)

\* C22: when a speaker with the mute-members permission says 'mute bob'
\* while Bob is in a voice channel and the platform accepts the edit, Bob is
\* server-muted afterwards and the response is the 'muted' confirmation with
\* Bob's display name.
C22_Step ==
    (/\ ExecuteMute(NameBob, TRUE, "ok")
     /\ can_mute
     /\ Bob \in in_voice)
        => /\ Bob \in muted'
           /\ muResp' = [kind |-> "muted", name |-> DisplayName(Bob)]
C22_MuteBob == [][C22_Step]_vars

\* ========================================================================
\* Voice sessions of several guilds under one VoiceHandler (SpecFleet)
\* ========================================================================
VGuilds == {"A", "B"}       \* bot.guilds, iterated in this order
FirstGuild == "A"
NextGuild(g) == IF g = "A" THEN "B" ELSE "sleep"

FleetInit ==
    /\ fConn = [g \in VGuilds |-> FALSE]
    /\ fSinks = [g \in VGuilds |-> "none"]
    /\ fTasks = [g \in VGuilds |-> FALSE]
    /\ fKeep = [g \in VGuilds |-> FALSE]
    /\ fManual = FALSE
    /\ fUpdates = <<>>
    /\ fLeavePc = [g \in VGuilds |-> "idle"]
    /\ fRejoins = {}
    /\ fLeft = [g \in VGuilds |-> FALSE]
    /\ fLost = [g \in VGuilds |-> FALSE]
    /\ fLoop = "unstarted"
    /\ fReady = 0

\* The sessions set up for the guilds of S by join_channel (103-128),
\* _attempt_rejoin (637-658) or _ensure_voice_channel (306-325): connection,
\* a new sink, a new registered segmentation task, keep-alive restarted
Sessions(S) ==
    /\ fConn' = [g \in VGuilds |-> fConn[g] \/ g \in S]
    /\ fSinks' = [g \in VGuilds |-> IF g \in S THEN "empty" ELSE fSinks[g]]
    /\ fTasks' = [g \in VGuilds |-> fTasks[g] \/ g \in S]
    /\ fKeep' = [g \in VGuilds |-> fKeep[g] \/ g \in S]
    /\ fLeft' = [g \in VGuilds |-> fLeft[g] /\ g \notin S]
    /\ fLost' = [g \in VGuilds |-> fLost[g] /\ g \notin S]
Session(g) == Sessions({g})

\* VoiceHandler.join_channel, lines 103-138, the flag reset included; no
\* join command is given for a guild whose leave command is under way
FleetJoin(g) ==
    /\ fLeavePc[g] = "idle"
    /\ Session(g)
    /\ fManual' = FALSE
    /\ UNCHANGED <<fUpdates, fLeavePc, fRejoins, fLoop, fReady>>
    /\ UNCHANGED outsideFleet

\* VoiceSink.write: a frame is buffered in the sink of g
FleetWrite(g) ==
    /\ fConn[g]
    /\ fSinks[g] = "empty"
    /\ fSinks' = [fSinks EXCEPT ![g] = "audio"]
    /\ UNCHANGED <<fConn, fTasks, fKeep, fManual, fUpdates, fLeavePc, fRejoins,
                   fLeft, fLost, fLoop, fReady>>
    /\ UNCHANGED outsideFleet

\* leave_channel lines 159-180: cancel and delete the task entries, clean
\* and delete the sink, disconnect; Discord answers with a voice-state
\* update of the bot
FleetLeave(g) ==
    /\ fLeavePc[g] = "idle"
    /\ fConn[g]
    /\ Len(fUpdates) < MaxUpdates
    /\ fTasks' = [fTasks EXCEPT ![g] = FALSE]
    /\ fKeep' = [fKeep EXCEPT ![g] = FALSE]
    /\ fSinks' = [fSinks EXCEPT ![g] = "none"]
    /\ fConn' = [fConn EXCEPT ![g] = FALSE]
    /\ fUpdates' = Append(fUpdates, [guild |-> g, cause |-> "leave"])
    /\ fLeavePc' = [fLeavePc EXCEPT ![g] = "sending"]
    /\ fLeft' = [fLeft EXCEPT ![g] = TRUE]
    /\ UNCHANGED <<fManual, fRejoins, fLost, fLoop, fReady>>
    /\ UNCHANGED outsideFleet

\* leave_channel lines 181-186, after the awaited disconnect and send
FleetLeaveFinish(g) ==
    /\ fLeavePc[g] = "sending"
    /\ fManual' = TRUE
    /\ fLeavePc' = [fLeavePc EXCEPT ![g] = "idle"]
    /\ fLeft' = [fLeft EXCEPT ![g] = TRUE]
    /\ UNCHANGED <<fConn, fSinks, fTasks, fKeep, fUpdates, fRejoins, fLost,
                   fLoop, fReady>>
    /\ UNCHANGED outsideFleet

\* The connection of g drops without a command
FleetDrop(g) ==
    /\ fConn[g]
    /\ Len(fUpdates) < MaxUpdates
    /\ fConn' = [fConn EXCEPT ![g] = FALSE]
    /\ fUpdates' = Append(fUpdates, [guild |-> g, cause |-> "drop"])
    /\ UNCHANGED <<fSinks, fTasks, fKeep, fManual, fLeavePc, fRejoins, fLeft,
                   fLost, fLoop, fReady>>
    /\ UNCHANGED outsideFleet

\* handle_voice_state_update lines 555-560 on the bot's own update
FleetHandleUpdate ==
    /\ fUpdates # <<>>
    /\ fUpdates' = Tail(fUpdates)
    /\ fRejoins' = IF ~fManual THEN fRejoins \cup {Head(fUpdates)} ELSE fRejoins
    /\ UNCHANGED <<fConn, fSinks, fTasks, fKeep, fManual, fLeavePc, fLeft,
                   fLost, fLoop, fReady>>
    /\ UNCHANGED outsideFleet

\* _attempt_rejoin lines 628-666 after its sleep: no 'Manga_bot' channel,
\* connect raises (always when a connection exists), or the session is set up
FleetAttemptRejoin(r, connects) ==
    /\ r \in fRejoins
    /\ fRejoins' = fRejoins \ {r}
    /\ IF connects /\ ~fConn[r.guild]
       THEN Session(r.guild) /\ fManual' = FALSE
       ELSE /\ fLost' = [fLost EXCEPT ![r.guild] =
                            @ \/ (r.cause = "drop" /\ ~fConn[r.guild])]
            /\ UNCHANGED <<fConn, fSinks, fTasks, fKeep, fManual, fLeft>>
    /\ UNCHANGED <<fUpdates, fLeavePc, fLoop, fReady>>
    /\ UNCHANGED outsideFleet

\* VoiceCog._ensure_voice_channel lines 277-347 for the guilds of S, none
\* of which has a connection: the session is set up and the flag reset
EnsureGuilds(S) ==
    IF S # {}
    THEN Sessions(S) /\ fManual' = FALSE
    ELSE UNCHANGED <<fConn, fSinks, fTasks, fKeep, fManual, fLeft, fLost>>

\* VoiceCog.on_ready lines 349-361: every guild is ensured, whatever the
\* flag says (connect succeeds for the guilds of S), and the loop task is
\* created on the first on_ready
FleetOnReady(S) ==
    /\ fReady < MaxReady
    /\ fReady' = fReady + 1
    /\ EnsureGuilds({g \in S : ~fConn[g]})
    /\ fLoop' = IF fLoop = "unstarted" THEN FirstGuild ELSE fLoop
    /\ UNCHANGED <<fUpdates, fLeavePc, fRejoins>>
    /\ UNCHANGED outsideFleet

\* one iteration of the for loop at lines 365-392
LoopVisit(connects) ==
    /\ fLoop \in VGuilds
    /\ IF fManual \/ fConn[fLoop]
       THEN UNCHANGED <<fConn, fSinks, fTasks, fKeep, fManual, fLeft, fLost>>
       ELSE EnsureGuilds(IF connects THEN {fLoop} ELSE {})
    /\ fLoop' = NextGuild(fLoop)
    /\ UNCHANGED <<fUpdates, fLeavePc, fRejoins, fReady>>
    /\ UNCHANGED outsideFleet

\* line 394: the module imports discord, commands, random and os (lines
\* 4-9) and no asyncio, so the name lookup raises NameError outside every
\* try block and the loop task ends
LoopSleep ==
    /\ fLoop = "sleep"
    /\ fLoop' = "dead"
    /\ UNCHANGED <<fConn, fSinks, fTasks, fKeep, fManual, fUpdates, fLeavePc,
                   fRejoins, fLeft, fLost, fReady>>
    /\ UNCHANGED outsideFleet

FleetNext ==
    \/ \E g \in VGuilds : FleetJoin(g)
    \/ \E g \in VGuilds : FleetWrite(g)
    \/ \E g \in VGuilds : FleetLeave(g)
    \/ \E g \in VGuilds : FleetLeaveFinish(g)
    \/ \E g \in VGuilds : FleetDrop(g)
    \/ FleetHandleUpdate
    \/ \E r \in fRejoins, connects \in BOOLEAN : FleetAttemptRejoin(r, connects)
    \/ \E S \in SUBSET VGuilds : FleetOnReady(S)
    \/ \E connects \in BOOLEAN : LoopVisit(connects)
    \/ LoopSleep

\* C24: when the update of a dropped connection of guild G is handled and
\* no leave command has run for G since G's last join, a rejoin attempt for
\* G is started, whatever was done in the other guilds.
C24_Step ==
    (/\ fUpdates # <<>> /\ fUpdates' = Tail(fUpdates)
     /\ Head(fUpdates).cause = "drop"
     /\ ~fLeft[Head(fUpdates).guild])
        => \E r \in fRejoins' : r.guild = Head(fUpdates).guild
C24_RejoinPerGuild == [][C24_Step]_vars

\* what VoiceHandler holds for guild h
SessionOf(h) == <<fConn[h], fSinks[h], fTasks[h], fKeep[h]>>

\* C25: the step that starts leave_channel for a guild and the step that
\* completes it leave the sessions of the other guilds as they are, and
\* when leave_channel completes the guild has no entry in tasks,
\* keep_alive_tasks and sinks (the registered tasks were cancelled and the
\* sink cleaned as the entries were deleted) and manual_disconnect is set.
C25_Step ==
    \A g \in VGuilds :
       /\ (fLeavePc[g] # fLeavePc'[g])
             => \A h \in VGuilds \ {g} : SessionOf(h)' = SessionOf(h)
       /\ (fLeavePc[g] = "sending" /\ fLeavePc'[g] = "idle")
             => /\ ~fTasks'[g] /\ ~fKeep'[g] /\ fSinks'[g] = "none"
                /\ fManual'
C25_LeaveReleases == [][C25_Step]_vars

\* C28: while a guild has lost its connection, its immediate rejoin has
\* failed and no manual disconnect is flagged, the enforcement loop task has
\* not ended, so that a later pass makes another join attempt for the guild.
C28_LoopKeepsScanning ==
    \A g \in VGuilds :
        (fLost[g] /\ ~fConn[g] /\ ~fManual) => fLoop # "dead"

\* ========================================================================
\* A speaker's segments from hand-off to the spoken response (SpecSeg)
\* ========================================================================
\* One guild whose voice client stays connected: the session was joined and
\* its greeting has ended.  join_channel on a connected client moves it and
\* registers a new sink; the _process_segment tasks of the old sink go on.
SegUsers == {1, 2}
SegIds == 1..MaxSegs
SinkIds == 1..MaxSinks
Greeting == 0       \* the speak call of join_channel
Requesters == SegIds \cup {Greeting}
NoPlay == -1        \* voice_client.is_playing() is False

SegInit ==
    /\ sgSink = 1
    /\ sgMarks = [k \in SinkIds |-> {}]
    /\ sgPc = [r \in Requesters |-> "idle"]
    /\ sgUser = [s \in SegIds |-> NoUser]
    /\ sgFrom = [s \in SegIds |-> 0]
    /\ sgPlaying = NoPlay
    /\ sgNext = 1

\* _process_segment lines 294-298 (finally): the mark is discarded from the
\* sink that self.sinks holds for the guild now.  join_channel lines 136-138:
\* the greeting's caller resets manual_disconnect and returns.
AfterSpeak(r, pc) ==
    IF r = Greeting
    THEN /\ sgPc' = [pc EXCEPT ![r] = "idle"]
         /\ UNCHANGED sgMarks
    ELSE /\ sgPc' = [pc EXCEPT ![r] = "done"]
         /\ sgMarks' = [sgMarks EXCEPT ![sgSink] = @ \ {sgUser[r]}]

\* get_ready_segments lines 121-141 on the registered sink, and the
\* create_task of _process_audio_loop: user u's buffer is ready and u is not
\* marked
SegHandOff(u) ==
    /\ sgNext <= MaxSegs
    /\ u \notin sgMarks[sgSink]
    /\ sgMarks' = [sgMarks EXCEPT ![sgSink] = @ \cup {u}]
    /\ sgPc' = [sgPc EXCEPT ![sgNext] = "heard"]
    /\ sgUser' = [sgUser EXCEPT ![sgNext] = u]
    /\ sgFrom' = [sgFrom EXCEPT ![sgNext] = sgSink]
    /\ sgNext' = sgNext + 1
    /\ UNCHANGED <<sgSink, sgPlaying>>
    /\ UNCHANGED outsideSeg

\* _process_segment lines 236-287: volume test, transcription, wake word,
\* command or chat response.  Without a response the task returns (or
\* raises) and its finally block runs.
SegCompute(s, responds) ==
    /\ s \in SegIds
    /\ sgPc[s] = "heard"
    /\ IF responds
       THEN /\ sgPc' = [sgPc EXCEPT ![s] = "texted"]
            /\ UNCHANGED sgMarks
       ELSE AfterSpeak(s, sgPc)
    /\ UNCHANGED <<sgSink, sgUser, sgFrom, sgPlaying, sgNext>>
    /\ UNCHANGED outsideSeg

\* _respond line 333 (join_channel line 130) has sent its message; speak
\* lines 44-54 stop whatever plays, and the call awaits the generation.  A
\* send that raises ends the segment task.
SegSpeakStart(r, sent) ==
    /\ sgPc[r] = (IF r = Greeting THEN "joined" ELSE "texted")
    /\ IF sent \/ r = Greeting
       THEN /\ sgPc' = [q \in Requesters |->
                           IF q = r THEN "gen"
                           ELSE IF q = sgPlaying THEN "ended" ELSE sgPc[q]]
            /\ sgPlaying' = NoPlay
            /\ UNCHANGED sgMarks
       ELSE /\ AfterSpeak(r, sgPc)
            /\ UNCHANGED sgPlaying
    /\ UNCHANGED <<sgSink, sgUser, sgFrom, sgNext>>
    /\ UNCHANGED outsideSeg

\* speak lines 68-99 and 108-115: the generation raised or left an empty
\* file, or voice_client.play raises because a source plays already, and
\* speak returns False; otherwise the source plays and speak waits
SegPlay(r, generated) ==
    /\ sgPc[r] = "gen"
    /\ IF generated /\ sgPlaying = NoPlay
       THEN /\ sgPlaying' = r
            /\ sgPc' = [sgPc EXCEPT ![r] = "speaking"]
            /\ UNCHANGED sgMarks
       ELSE /\ AfterSpeak(r, sgPc)
            /\ UNCHANGED sgPlaying
    /\ UNCHANGED <<sgSink, sgUser, sgFrom, sgNext>>
    /\ UNCHANGED outsideSeg

\* The player reaches the end of the source or fails
SegPlaybackEnd ==
    /\ sgPlaying # NoPlay
    /\ sgPc' = [sgPc EXCEPT ![sgPlaying] = "ended"]
    /\ sgPlaying' = NoPlay
    /\ UNCHANGED <<sgSink, sgMarks, sgUser, sgFrom, sgNext>>
    /\ UNCHANGED outsideSeg

\* speak lines 81-107: after_playback sets the event and speak returns to
\* its caller
SegReturn(r) ==
    /\ sgPc[r] = "ended"
    /\ AfterSpeak(r, sgPc)
    /\ UNCHANGED <<sgSink, sgUser, sgFrom, sgPlaying, sgNext>>
    /\ UNCHANGED outsideSeg

\* join_channel lines 96-130 on a connected voice client: move_to, a new
\* VoiceSink in self.sinks, listen, a new audio loop, the joined message
JoinSink ==
    /\ sgPc[Greeting] = "idle"
    /\ sgSink < MaxSinks
    /\ sgSink' = sgSink + 1
    /\ sgPc' = [sgPc EXCEPT ![Greeting] = "joined"]
    /\ UNCHANGED <<sgMarks, sgUser, sgFrom, sgPlaying, sgNext>>
    /\ UNCHANGED outsideSeg

SegNext ==
    \/ \E u \in SegUsers : SegHandOff(u)
    \/ \E s \in SegIds, responds \in BOOLEAN : SegCompute(s, responds)
    \/ \E r \in Requesters, sent \in BOOLEAN : SegSpeakStart(r, sent)
    \/ \E r \in Requesters, generated \in BOOLEAN : SegPlay(r, generated)
    \/ SegPlaybackEnd
    \/ \E r \in Requesters : SegReturn(r)
    \/ JoinSink

\* the response text of a segment exists before its speak call begins
C30_TextFirst ==
    \A s \in SegIds : (sgPc'[s] = "gen" /\ sgPc[s] # "gen") => sgPc[s] = "texted"

\* a speaker's mark leaves a sink's processing set only when every segment
\* that sink handed off for the speaker is over, its playback included
C30_ReleaseStep ==
    \A k \in SinkIds, u \in SegUsers :
        (u \in sgMarks[k] /\ u \notin sgMarks'[k])
            => \A q \in SegIds : (sgUser[q] = u /\ sgFrom[q] = k) => sgPc'[q] = "done"

\* no segment of a speaker is handed off while the response to an earlier
\* segment of the same speaker is being spoken
C30_HandOffStep ==
    \A s \in SegIds :
        (sgPc[s] = "idle" /\ sgPc'[s] = "heard")
            => \A q \in SegIds \ {s} : sgUser[q] = sgUser'[s] => sgPc[q] # "speaking"

C30_Step == C30_TextFirst /\ C30_ReleaseStep /\ C30_HandOffStep

\* C30: for one speaker's segment the response text is produced before it
\* is spoken, and _process_segment releases the speaker's processing mark
\* only after the TTS playback of that response has completed or failed, so
\* no second segment of the same speaker is handed off while the response
\* to the first is still being spoken.
C30_MarkHeldWhileSpoken == [][C30_Step]_vars

\* a segment task that ends has discarded its speaker from the processing
\* set of the sink that handed the segment off
C31_Step ==
    \A s \in SegIds :
        (sgPc[s] # "done" /\ sgPc'[s] = "done") => sgUser[s] \notin sgMarks'[sgFrom[s]]

\* C31: every segment returned by get_ready_segments leads, on every path of
\* _process_segment, to finish_processing for that speaker on the sink that
\* marked it, so no speaker stays marked processing while the session is
\* alive and the external calls return.
C31_FinishOnMarkingSink == [][C31_Step]_vars

\* ========================================================================
\* Shutdown of the save worker: cog_unload, _flush_pending_saves (SpecStop)
\* ========================================================================
JoinTimeout == 2        \* self._save_worker.join(timeout=2)
FlushTimeout == 3       \* _flush_pending_saves(timeout=3.0)

\* queue.Queue.unfinished_tasks: put() calls not yet matched by task_done()
Unfinished == Len(sdQueue) + (IF sdWorker = "write" THEN 1 ELSE 0)

\* cog_unload runs on the event loop and does not await
LoopBlocked == sdUnload \in {"join", "worker_join"}

StopInit ==
    /\ sdQueue = <<>>
    /\ sdWorker = "get"
    /\ sdStop = FALSE
    /\ sdUnload = "idle"
    /\ sdFlush = "idle"
    /\ sdWait = 0
    /\ sdFlushWait = 0

\* _enqueue_save line 1003, from a command handler on the event loop
StopEnqueue ==
    /\ ~LoopBlocked
    /\ sdUnload = "idle"
    /\ Unfinished < MaxPending
    /\ sdQueue' = Append(sdQueue, "op")
    /\ UNCHANGED <<sdWorker, sdStop, sdUnload, sdFlush, sdWait, sdFlushWait>>
    /\ UNCHANGED outsideStop

\* _save_worker_loop lines 1008-1011: get(); the sentinel ends the thread
StopWorkerGet ==
    /\ sdWorker = "get"
    /\ sdQueue # <<>>
    /\ sdQueue' = Tail(sdQueue)
    /\ sdWorker' = IF Head(sdQueue) = "stop" THEN "exited" ELSE "write"
    /\ UNCHANGED <<sdStop, sdUnload, sdFlush, sdWait, sdFlushWait>>
    /\ UNCHANGED outsideStop

\* Lines 1014-1025 and 1007: the storage call returns or raises, task_done,
\* and the loop condition is tested
StopWorkerDone ==
    /\ sdWorker = "write"
    /\ sdWorker' = IF sdStop THEN "exited" ELSE "get"
    /\ UNCHANGED <<sdQueue, sdStop, sdUnload, sdFlush, sdWait, sdFlushWait>>
    /\ UNCHANGED outsideStop

\* cog_unload line 981: self._save_queue.join()
UnloadBegin ==
    /\ sdUnload = "idle"
    /\ sdUnload' = "join"
    /\ sdWait' = 0
    /\ UNCHANGED <<sdQueue, sdWorker, sdStop, sdFlush, sdFlushWait>>
    /\ UNCHANGED outsideStop

\* Lines 981-988: join() returns once no task is unfinished; the stop flag
\* is set, the sentinel is put, and a live worker is joined for 2 seconds
UnloadJoinDone ==
    /\ sdUnload = "join"
    /\ Unfinished = 0
    /\ sdStop' = TRUE
    /\ sdQueue' = Append(sdQueue, "stop")
    /\ sdUnload' = IF sdWorker # "exited" THEN "worker_join" ELSE "returned"
    /\ sdWait' = 0
    /\ UNCHANGED <<sdWorker, sdFlush, sdFlushWait>>
    /\ UNCHANGED outsideStop

\* Line 988: the worker ended or the timeout passed
UnloadWorkerJoinDone ==
    /\ sdUnload = "worker_join"
    /\ sdWorker = "exited" \/ sdWait = JoinTimeout
    /\ sdUnload' = "returned"
    /\ UNCHANGED <<sdQueue, sdWorker, sdStop, sdFlush, sdWait, sdFlushWait>>
    /\ UNCHANGED outsideStop

\* _flush_pending_saves line 1076: queue.join in a thread, awaited with a
\* timeout
FlushBegin ==
    /\ ~LoopBlocked
    /\ sdFlush = "idle"
    /\ sdFlush' = "wait"
    /\ sdFlushWait' = 0
    /\ UNCHANGED <<sdQueue, sdWorker, sdStop, sdUnload, sdWait>>
    /\ UNCHANGED outsideStop

\* Lines 1076-1078: the join ended or wait_for raised TimeoutError; the
\* coroutine resumes when the event loop runs
FlushDone ==
    /\ ~LoopBlocked
    /\ sdFlush = "wait"
    /\ Unfinished = 0 \/ sdFlushWait = FlushTimeout
    /\ sdFlush' = "idle"
    /\ UNCHANGED <<sdQueue, sdWorker, sdStop, sdUnload, sdWait, sdFlushWait>>
    /\ UNCHANGED outsideStop

\* One second passes for the calls that wait; a timeout that is due is taken
\* before more time passes
StopTick ==
    /\ LoopBlocked \/ sdFlush = "wait"
    /\ sdUnload = "join" => sdWait < MaxWait
    /\ sdUnload = "worker_join" => sdWait < JoinTimeout
    /\ (sdFlush = "wait" /\ ~LoopBlocked) => sdFlushWait < FlushTimeout
    /\ sdWait' = IF LoopBlocked THEN sdWait + 1 ELSE sdWait
    /\ sdFlushWait' = IF sdFlush = "wait" /\ sdFlushWait < FlushTimeout
                      THEN sdFlushWait + 1 ELSE sdFlushWait
    /\ UNCHANGED <<sdQueue, sdWorker, sdStop, sdUnload, sdFlush>>
    /\ UNCHANGED outsideStop

StopNext ==
    \/ StopEnqueue
    \/ StopWorkerGet
    \/ StopWorkerDone
    \/ UnloadBegin
    \/ UnloadJoinDone
    \/ UnloadWorkerJoinDone
    \/ FlushBegin
    \/ FlushDone
    \/ StopTick

\* C33: cog_unload and _flush_pending_saves return after a bounded wait even
\* when the save queue is not empty or the worker is blocked in a storage
\* write: a shutdown that began to wait always comes to return.
C33_ShutdownReturns ==
    /\ (sdUnload = "join") ~> (sdUnload = "returned")
    /\ (sdFlush = "wait") ~> (sdFlush = "idle")

\* ========================================================================
\* The command-control view: toggle, reset, add role (SpecToggle)
\* ========================================================================
Invokers == AuthUsers \X (SUBSET PermRoles)

\* The command_overrides map after _load_auth_data of an installation that
\* has no guild records yet: empty, or records under the legacy "_global" key
LegacyOverrides ==
    {EmptyMap} \cup {("_global" :> m) : m \in CommandMaps}

\* ensure_command_override lines 1347-1355: the guild's own record for the
\* command, created with the default content if the guild map has none
EnsuredOverrides(guild_key, cmd_name) ==
    LET fresh == [disabled |-> FALSE, allowed_users |-> {}, allowed_roles |-> {}]
        gmap == IF guild_key \in DOMAIN command_overrides
                THEN command_overrides[guild_key] ELSE [k \in {} |-> fresh]
        gmap2 == IF cmd_name \in DOMAIN gmap THEN gmap ELSE (cmd_name :> fresh) @@ gmap
    IN (guild_key :> gmap2) @@ command_overrides

\* _save_auth_data(guild.id) lines 1332-1334 once the overrides are ov
SaveOverrides(guild_key, ov) ==
    LET st0 == [q |-> save_queue, s |-> queued_save_ops, d |-> deleted_guilds,
                p |-> enqPending]
        st == EnqueueSave(GuildOp(guild_key), st0, AllGuildKeysOf(blacklisted, ov))
    IN /\ save_queue' = st.q
       /\ queued_save_ops' = st.s
       /\ deleted_guilds' = st.d
       /\ enqPending' = st.p

ToggleInit ==
    /\ tgCount = 0
    /\ tgGuild = "None"
    /\ tgCmd = "None"
    /\ tgBase = [i \in Invokers |-> TRUE]

\* the watch ends when the watched command's record is changed otherwise
Unwatch(guild_key, cmd_name) ==
    /\ tgCount' = IF tgGuild = guild_key /\ tgCmd = cmd_name THEN 0 ELSE tgCount
    /\ UNCHANGED <<tgGuild, tgCmd, tgBase>>

toggleFrame == <<guilds, admins, blacklisted, store_guild, store_admins, workerVars,
                 evPc, evGuild, lastCheck, removed, ownerActed, qSnap>>

\* CommandControlView.toggle_callback lines 855-861
ToggleCallback(guild_key, cmd_name) ==
    LET ov == EnsuredOverrides(guild_key, cmd_name)
        now_disabled == ~ov[guild_key][cmd_name].disabled
    IN /\ command_overrides' =
              [ov EXCEPT ![guild_key][cmd_name].disabled = now_disabled]
       /\ SaveOverrides(guild_key, command_overrides')
       /\ IF tgCount = 1 /\ tgGuild = guild_key /\ tgCmd = cmd_name
          THEN /\ tgCount' = 2
               /\ UNCHANGED <<tgGuild, tgCmd, tgBase>>
          ELSE IF now_disabled
          THEN /\ tgCount' = 1
               /\ tgGuild' = guild_key
               /\ tgCmd' = cmd_name
               /\ tgBase' = [i \in Invokers |->
                                CheckCommandPermission(guild_key, cmd_name, i[1], i[2])]
          ELSE Unwatch(guild_key, cmd_name)
       /\ UNCHANGED toggleFrame
       /\ UNCHANGED outsideAuthToggle

\* CommandControlView.reset_callback lines 863-871
ResetCallback(guild_key, cmd_name) ==
    /\ IF /\ guild_key \in DOMAIN command_overrides
          /\ cmd_name \in DOMAIN command_overrides[guild_key]
       THEN /\ command_overrides' =
                   [command_overrides EXCEPT ![guild_key] = DelKey(@, cmd_name)]
            /\ SaveOverrides(guild_key, command_overrides')
       ELSE UNCHANGED <<command_overrides, save_queue, queued_save_ops,
                        deleted_guilds, enqPending>>
    /\ Unwatch(guild_key, cmd_name)
    /\ UNCHANGED toggleFrame
    /\ UNCHANGED outsideAuthToggle

\* CommandControlView.add_role_callback lines 873-884
AddRoleCallback(guild_key, cmd_name, role_id) ==
    LET ov == EnsuredOverrides(guild_key, cmd_name) IN
    /\ IF role_id \notin ov[guild_key][cmd_name].allowed_roles
       THEN /\ command_overrides' =
                   [ov EXCEPT ![guild_key][cmd_name].allowed_roles = @ \cup {role_id}]
            /\ SaveOverrides(guild_key, command_overrides')
       ELSE /\ command_overrides' = ov
            /\ UNCHANGED <<save_queue, queued_save_ops, deleted_guilds, enqPending>>
    /\ Unwatch(guild_key, cmd_name)
    /\ UNCHANGED toggleFrame
    /\ UNCHANGED outsideAuthToggle

ToggleNext ==
    \/ \E g \in Guilds, c \in PermCommands : ToggleCallback(g, c)
    \/ \E g \in Guilds, c \in PermCommands : ResetCallback(g, c)
    \/ \E g \in Guilds, c \in PermCommands, r \in PermRoles : AddRoleCallback(g, c, r)

\* C34: toggling a command's disabled flag on and then off again through the
\* command-control view restores, for every invoker, the permission decision
\* that held before the first toggle; a sensitive command with no other
\* restriction is again denied to non-admins afterwards.
C34_ToggleRestores ==
    tgCount = 2
        => \A i \in Invokers :
              CheckCommandPermission(tgGuild, tgCmd, i[1], i[2]) = tgBase[i]

\* ========================================================================
\* Snapshot creation and pruning in the backup root (SpecSnap)
\* ========================================================================
\* auth_backup_task (main.py) and AuthCog._backup_auth_db_now each run their
\* creator in a thread of asyncio.to_thread, on the same backup root
Creators == {"task", "cog"}
KeepValues == {0, 1, 2}

\* max(1, keep)
Retained(keep) == IF keep < 1 THEN 1 ELSE keep

\* snapshots[max(1, keep):] of the names sorted in reverse
Beyond(names, keep) ==
    {x \in names : Cardinality({y \in names : NameLess(x, y)}) >= Retained(keep)}

SnapStart(keep) ==
    /\ snRoot = {}
    /\ snClock = 0
    /\ snKeep = keep
    /\ snPc = [c \in Creators |-> "idle"]
    /\ snTs = [c \in Creators |-> 0]
    /\ snList = [c \in Creators |-> {}]

SnapInit == SnapStart(BackupKeep)

\* lines 152-158 (1086-1092): the DB root has files; ts is taken from the
\* clock
SnapStamp(c) ==
    /\ snPc[c] = "idle"
    /\ snClock < MaxStamp
    /\ snTs' = [snTs EXCEPT ![c] = snClock]
    /\ snClock' = snClock + 1
    /\ snPc' = [snPc EXCEPT ![c] = "stamped"]
    /\ UNCHANGED <<snRoot, snKeep, snList>>
    /\ UNCHANGED outsideSnap

\* lines 160-161 (1094-1095): the copy is made under a .tmp_snapshot_ name
\* and renamed to snapshot_<ts>
SnapRename(c) ==
    /\ snPc[c] = "stamped"
    /\ snRoot' = snRoot \cup {NameOf(snTs[c])}
    /\ snPc' = [snPc EXCEPT ![c] = "renamed"]
    /\ UNCHANGED <<snClock, snKeep, snTs, snList>>
    /\ UNCHANGED outsideSnap

\* lines 163-167 (1097-1101): the snapshot_* directories are listed
SnapListing(c) ==
    /\ snPc[c] = "renamed"
    /\ snList' = [snList EXCEPT ![c] = snRoot]
    /\ snPc' = [snPc EXCEPT ![c] = "listed"]
    /\ UNCHANGED <<snRoot, snClock, snKeep, snTs>>
    /\ UNCHANGED outsideSnap

\* lines 168-176 (1102-1109): the listed directories beyond the newest
\* max(1, keep) are removed and final_snapshot is returned
SnapPrune(c) ==
    /\ snPc[c] = "listed"
    /\ snRoot' = snRoot \ Beyond(snList[c], snKeep)
    /\ snPc' = [snPc EXCEPT ![c] = "idle"]
    /\ UNCHANGED <<snClock, snKeep, snTs, snList>>
    /\ UNCHANGED outsideSnap

SnapNext ==
    \/ \E c \in Creators : SnapStamp(c)
    \/ \E c \in Creators : SnapRename(c)
    \/ \E c \in Creators : SnapListing(c)
    \/ \E c \in Creators : SnapPrune(c)

\* a creator returns in this step
SnapReturns(c) == snPc[c] = "listed" /\ snPc'[c] = "idle"

\* C40: when a snapshot creation with retention count k returns, the backup
\* root holds at most max(1, k) snapshot directories, every directory kept
\* has a later timestamp name than every directory removed, and the
\* snapshot just created is among those kept.
C40_Step ==
    \A c \in Creators :
        SnapReturns(c) =>
            /\ Cardinality(snRoot') <= Retained(snKeep)
            /\ \A x \in snRoot', y \in snRoot \ snRoot' : NameLess(y, x)
            /\ NameOf(snTs[c]) \in snRoot'

C40_PrunedToKeep == [][C40_Step]_vars

\* ========================================================================
\* The startup bootstrap of the per-guild records (SpecOrphan)
\* ========================================================================
MemberKeys == {"g1", "g2"}              \* str(guild.id) of guilds on Discord
BsKeys == MemberKeys \cup {"_global"}   \* the guild keys a record can carry

\* the state AuthCog.__init__ leaves: the worker waits in queue.get(), the
\* record holds the keys in mem and the operations in queue are pending
BsStart(active, mem, disk, queue) ==
    /\ bsActive = active
    /\ bsMem = mem
    /\ bsDisk = disk
    /\ bsQueue = queue
    /\ bsQueued = {queue[i] : i \in DOMAIN queue}
    /\ bsDeleted = {}
    /\ bsPc = "start"
    /\ bsOrphans = {}
    /\ bsWk = "get"
    /\ bsOp = GlobalOp

BsInit == BsStart({}, {}, {}, <<>>)

\* _bootstrap_databases lines 1054-1060: a record is ensured for every
\* active guild, then the records are listed and the orphans computed
BootstrapEnsure ==
    /\ bsPc = "start"
    /\ bsDisk' = bsDisk \cup bsActive
    /\ bsOrphans' = bsDisk' \ bsActive
    /\ bsPc' = "orphans"
    /\ UNCHANGED <<bsActive, bsMem, bsQueue, bsQueued, bsDeleted, bsWk, bsOp>>
    /\ UNCHANGED outsideBs

\* lines 1062-1067: one orphan is marked deleted, purged from the record,
\* dropped from the pending set and deleted from the backend
BootstrapOrphan(guild_key) ==
    /\ bsPc = "orphans"
    /\ guild_key \in bsOrphans
    /\ bsDeleted' = bsDeleted \cup {guild_key}
    /\ bsMem' = bsMem \ {guild_key}
    /\ bsQueued' = bsQueued \ {GuildOp(guild_key)}
    /\ bsDisk' = bsDisk \ {guild_key}
    /\ bsOrphans' = bsOrphans \ {guild_key}
    /\ UNCHANGED <<bsActive, bsQueue, bsPc, bsWk, bsOp>>
    /\ UNCHANGED outsideBs

\* line 1071, _save_auth_data(): the global operation and one operation for
\* every key of _all_guild_keys() are enqueued
BootstrapSave(order) ==
    /\ bsPc = "orphans"
    /\ bsOrphans = {}
    /\ LET st0 == [q |-> bsQueue, s |-> bsQueued, d |-> bsDeleted, p |-> {}]
           st == EnqueueAll(<<GlobalOp>> \o GuildOps(order), st0, bsMem)
       IN /\ bsQueue' = st.q
          /\ bsQueued' = st.s
          /\ bsDeleted' = st.d
    /\ bsPc' = "done"
    /\ UNCHANGED <<bsActive, bsMem, bsDisk, bsOrphans, bsWk, bsOp>>
    /\ UNCHANGED outsideBs

\* _save_worker_loop line 1008: an operation is taken from the queue
BsWorkerGet ==
    /\ bsWk = "get"
    /\ bsQueue # <<>>
    /\ bsOp' = Head(bsQueue)
    /\ bsQueue' = Tail(bsQueue)
    /\ bsWk' = IF Head(bsQueue).kind = "global" THEN "global" ELSE "check"
    /\ UNCHANGED <<bsActive, bsMem, bsDisk, bsQueued, bsDeleted, bsPc, bsOrphans>>
    /\ UNCHANGED outsideBs

\* lines 1015-1016: save_global writes no per-guild record
BsWorkerSaveGlobal ==
    /\ bsWk = "global"
    /\ bsWk' = "finally"
    /\ UNCHANGED <<bsActive, bsMem, bsDisk, bsQueue, bsQueued, bsDeleted, bsPc, bsOrphans,
                   bsOp>>
    /\ UNCHANGED outsideBs

\* line 1018: the test of _deleted_guilds
BsWorkerCheck ==
    /\ bsWk = "check"
    /\ bsWk' = IF bsOp.key \in bsDeleted THEN "finally" ELSE "write"
    /\ UNCHANGED <<bsActive, bsMem, bsDisk, bsQueue, bsQueued, bsDeleted, bsPc, bsOrphans,
                   bsOp>>
    /\ UNCHANGED outsideBs

\* line 1019: save_guild, which creates the record when it is missing
BsWorkerWrite ==
    /\ bsWk = "write"
    /\ bsDisk' = bsDisk \cup {bsOp.key}
    /\ bsWk' = "finally"
    /\ UNCHANGED <<bsActive, bsMem, bsQueue, bsQueued, bsDeleted, bsPc, bsOrphans, bsOp>>
    /\ UNCHANGED outsideBs

\* lines 1022-1025
BsWorkerFinally ==
    /\ bsWk = "finally"
    /\ bsQueued' = bsQueued \ {bsOp}
    /\ bsWk' = "get"
    /\ UNCHANGED <<bsActive, bsMem, bsDisk, bsQueue, bsDeleted, bsPc, bsOrphans, bsOp>>
    /\ UNCHANGED outsideBs

BsNext ==
    \/ BootstrapEnsure
    \/ \E k \in BsKeys : BootstrapOrphan(k)
    \/ \E order \in Orders(bsMem) : BootstrapSave(order)
    \/ BsWorkerGet
    \/ BsWorkerSaveGlobal
    \/ BsWorkerCheck
    \/ BsWorkerWrite
    \/ BsWorkerFinally

\* _bootstrap_databases has completed and the save queue has drained
BsDrained == bsPc = "done" /\ bsQueue = <<>> /\ bsWk = "get"

\* C36: after _bootstrap_databases has completed and the save queue has
\* drained, the backend holds a record for exactly the guilds the bot is a
\* member of, and the in-memory record holds data for no other guild.
C36_RecordsAreMemberGuilds ==
    BsDrained => bsDisk = bsActive /\ bsMem \subseteq bsActive

\* ========================================================================
\* The voice moderation commands: mute, unmute, kick, timeout (SpecMod)
\* ========================================================================
ModPerms == {"mute_members", "move_members", "moderate_members"}
MaxTimeout == 60            \* min(minutes, 60)
DefaultTimeout == 5         \* the minutes of 'timeout <name>' without a number
SaidMinutes == {DefaultTimeout, MaxTimeout + 30}

\* the names said after the command word: a member's and nobody's
ModNames == {NameBob, NameDan}

\* guild.get_member(user_id) of the speaker: Carol, or None
Invokers37 == {Carol, NoMember}

\* guild.members
ModMembers == <<Bob, Bobby, Carol>>

Said(cmd, kind, name) == [cmd |-> cmd, kind |-> kind, name |-> name]

ModInit ==
    /\ mdPerms = ModPerms
    /\ mdVoice = {Carol}
    /\ mdMuted = {}
    /\ mdTimed = [m \in GuildMembers |-> 0]
    /\ mdResp = Said("none", "none", <<>>)

\* Variant of the executors' entry tests without the permission test
RefusalUnidentifiedOnly(invoker, perm) ==
    IF invoker = NoMember THEN "unidentified" ELSE "none"

\* the tests every executor begins with (lines 426-431, 453-458, 479-484):
\* `not invoker`, then invoker.guild_permissions.<perm>
Refusal(invoker, perm) ==
    IF invoker = NoMember THEN "unidentified"
    ELSE IF perm \notin mdPerms THEN "no_permission"
    ELSE "none"

\* a role of the speaker is edited on Discord
ModPermChange(perm) ==
    /\ mdPerms' = IF perm \in mdPerms THEN mdPerms \ {perm} ELSE mdPerms \cup {perm}
    /\ UNCHANGED <<mdVoice, mdMuted, mdTimed, mdResp>>
    /\ UNCHANGED outsideMod

\* another member joins or leaves a voice channel
ModVoiceChange(m) ==
    /\ m # Carol
    /\ mdVoice' = IF m \in mdVoice THEN mdVoice \ {m} ELSE mdVoice \cup {m}
    /\ UNCHANGED <<mdPerms, mdMuted, mdTimed, mdResp>>
    /\ UNCHANGED outsideMod

\* VoiceHandler._execute_mute; edit is how target.edit(mute=...) ends
ModExecuteMute(invoker, target_name, mute, edit) ==
    LET cmd == IF mute THEN "mute" ELSE "unmute"
        refusal == Refusal(invoker, "mute_members")
        target == FindMember(ModMembers, target_name)
    IN
    /\ IF refusal # "none"
       THEN mdResp' = Said(cmd, refusal, <<>>) /\ UNCHANGED mdMuted
       ELSE IF target = NoMember
       THEN mdResp' = Said(cmd, "not_found", target_name) /\ UNCHANGED mdMuted
       ELSE IF target \notin mdVoice
       THEN mdResp' = Said(cmd, "not_in_voice", DisplayName(target)) /\ UNCHANGED mdMuted
       ELSE IF edit = "ok"
       THEN /\ mdMuted' = IF mute THEN mdMuted \cup {target} ELSE mdMuted \ {target}
            /\ mdResp' = Said(cmd, "done", DisplayName(target))
       ELSE mdResp' = Said(cmd, edit, <<>>) /\ UNCHANGED mdMuted
    /\ UNCHANGED <<mdPerms, mdVoice, mdTimed>>
    /\ UNCHANGED outsideMod

\* VoiceHandler._execute_kick; move is how target.move_to(None) ends
ModExecuteKick(invoker, target_name, move) ==
    LET refusal == Refusal(invoker, "move_members")
        target == FindMember(ModMembers, target_name)
    IN
    /\ IF refusal # "none"
       THEN mdResp' = Said("kick", refusal, <<>>) /\ UNCHANGED mdVoice
       ELSE IF target = NoMember
       THEN mdResp' = Said("kick", "not_found", target_name) /\ UNCHANGED mdVoice
       ELSE IF target \notin mdVoice
       THEN mdResp' = Said("kick", "not_in_voice", DisplayName(target)) /\ UNCHANGED mdVoice
       ELSE IF move = "ok"
       THEN /\ mdVoice' = mdVoice \ {target}
            /\ mdResp' = Said("kick", "done", DisplayName(target))
       ELSE mdResp' = Said("kick", move, <<>>) /\ UNCHANGED mdVoice
    /\ UNCHANGED <<mdPerms, mdMuted, mdTimed>>
    /\ UNCHANGED outsideMod

\* VoiceHandler._execute_timeout; timeout is how target.timeout(...) ends
ModExecuteTimeout(invoker, target_name, minutes, timeout) ==
    LET refusal == Refusal(invoker, "moderate_members")
        target == FindMember(ModMembers, target_name)
        capped == IF minutes < MaxTimeout THEN minutes ELSE MaxTimeout
    IN
    /\ IF refusal # "none"
       THEN mdResp' = Said("timeout", refusal, <<>>) /\ UNCHANGED mdTimed
       ELSE IF target = NoMember
       THEN mdResp' = Said("timeout", "not_found", target_name) /\ UNCHANGED mdTimed
       ELSE IF timeout = "ok"
       THEN /\ mdTimed' = [mdTimed EXCEPT ![target] = capped]
            /\ mdResp' = Said("timeout", "done", DisplayName(target))
       ELSE mdResp' = Said("timeout", timeout, <<>>) /\ UNCHANGED mdTimed
    /\ UNCHANGED <<mdPerms, mdVoice, mdMuted>>
    /\ UNCHANGED outsideMod

ApiOutcomes == {"ok", "forbidden", "failed"}

ModNext ==
    \/ \E perm \in ModPerms : ModPermChange(perm)
    \/ \E m \in GuildMembers : ModVoiceChange(m)
    \/ \E i \in Invokers37, n \in ModNames, mute \in BOOLEAN, edit \in ApiOutcomes :
          ModExecuteMute(i, n, mute, edit)
    \/ \E i \in Invokers37, n \in ModNames, move \in ApiOutcomes :
          ModExecuteKick(i, n, move)
    \/ \E i \in Invokers37, n \in ModNames, mins \in SaidMinutes, t \in ApiOutcomes :
          ModExecuteTimeout(i, n, mins, t)

\* the invoker is unidentified or lacks the permission perm
Refused(invoker, perm) == invoker = NoMember \/ perm \notin mdPerms

\* the executor has returned one of its two refusal strings and no member's
\* mute, voice or timeout state has changed
RefusedQuietly ==
    /\ mdResp'.kind \in {"unidentified", "no_permission"}
    /\ UNCHANGED <<mdMuted, mdVoice, mdTimed>>

\* C37: when the invoking member cannot be identified or lacks the required
\* permission (mute-members for mute and unmute, move-members for kick,
\* moderate-members for timeout), the executor returns a refusal string and
\* changes no member's mute, voice-channel or timeout state.
C37_Step ==
    \A i \in Invokers37, n \in ModNames, o \in ApiOutcomes :
        /\ \A mute \in BOOLEAN :
              (Refused(i, "mute_members") /\ ModExecuteMute(i, n, mute, o))
                  => RefusedQuietly
        /\ (Refused(i, "move_members") /\ ModExecuteKick(i, n, o)) => RefusedQuietly
        /\ \A mins \in SaidMinutes :
              (Refused(i, "moderate_members") /\ ModExecuteTimeout(i, n, mins, o))
                  => RefusedQuietly
C37_RefusalChangesNothing == [][C37_Step]_vars

\* a speaker who may mute and time out but not move members has been refused
\* a kick while Bob was in a voice channel
C37_Witness ==
    /\ mdResp = Said("kick", "no_permission", <<>>)
    /\ mdPerms = {"mute_members", "moderate_members"}
    /\ Bob \in mdVoice

\* ========================================================================
\* One voice session: the segmentation loop and its segment tasks (SpecLoop)
\* ========================================================================
\* The session is the one join_channel has set up; the sink is not replaced
\* while it lasts.  A segment task stands at one of its awaits: "start" (the
\* task is created and has not run), "transcribe" (speech.transcribe),
\* "command" (_parse_and_execute_command), "ai" (ai.voice_response),
\* "respond" (text_channel.send) and "speak" (tts.speak).
InFlight == {"start", "transcribe", "command", "ai", "respond", "speak"}

LoopInit ==
    /\ lpReady = {}
    /\ lpMarks = {}
    /\ lpTask = [u \in SegUsers |-> "none"]
    /\ lpLoop = "running"
    /\ lpConnected = TRUE
    /\ lpSpoken = 0
    /\ lpCaught = {}
    /\ lpDuring = {}

\* Variant of the loop that awaits _process_segment instead of creating a
\* task for it: it is back at its sleep only when no segment is in flight
LoopAwaitsSegments == lpLoop = "running" /\ \A u \in SegUsers : lpTask[u] = "none"

\* _process_audio_loop lines 200-217: asyncio.create_task returns at once,
\* so the running loop is at its sleep whatever the segment tasks do
LoopAtSleep == lpLoop = "running"

\* Variant of the finally block that leaves the mark
KeepMark(marks, user_id) == marks

\* lines 294-298: sink.finish_processing(user_id)
ReleaseMark(marks, user_id) == marks \ {user_id}

\* VoiceSink.write and the silence after it: a buffer of the speaker holds
\* more than MIN_AUDIO_LENGTH bytes and SILENCE_TIMEOUT has passed
LpSegmentReady(u) ==
    /\ lpConnected
    /\ u \notin lpReady
    /\ lpSpoken < MaxSpoken
    /\ lpSpoken' = lpSpoken + 1
    /\ lpReady' = lpReady \cup {u}
    /\ UNCHANGED <<lpMarks, lpTask, lpLoop, lpConnected, lpCaught, lpDuring>>
    /\ UNCHANGED outsideLoop

\* one pass of the loop that finds segments: get_ready_segments takes every
\* ready speaker that is not in processing, marks it and empties its
\* buffer, and a task is created for each
LpTick ==
    LET taken == lpReady \ lpMarks IN
    /\ LoopAtSleep
    /\ lpConnected
    /\ taken # {}
    /\ lpReady' = lpReady \ taken
    /\ lpMarks' = lpMarks \cup taken
    /\ lpTask' = [u \in SegUsers |-> IF u \in taken THEN "start" ELSE lpTask[u]]
    /\ lpDuring' = IF \E a \in SegUsers \ taken : lpTask[a] # "none"
                   THEN lpDuring \cup taken ELSE lpDuring
    /\ UNCHANGED <<lpLoop, lpConnected, lpSpoken, lpCaught>>
    /\ UNCHANGED outsideLoop

\* the await a task goes to from stage; chat: the text was no command
After(stage, chat) ==
    IF stage = "start" THEN "transcribe"
    ELSE IF stage = "transcribe" THEN "command"
    ELSE IF stage = "command" THEN (IF chat THEN "ai" ELSE "respond")
    ELSE IF stage = "ai" THEN "respond"
    ELSE "speak"

\* the finally block of _process_segment, lines 294-298
Finally(u) ==
    /\ lpMarks' = IF lpConnected THEN ReleaseMark(lpMarks, u) ELSE lpMarks
    /\ lpTask' = [lpTask EXCEPT ![u] = "none"]

\* _process_segment runs from one await to the next (lines 238-289)
LpAdvance(u, chat) ==
    /\ lpTask[u] \in InFlight \ {"speak"}
    /\ lpTask' = [lpTask EXCEPT ![u] = After(lpTask[u], chat)]
    /\ UNCHANGED <<lpReady, lpMarks, lpLoop, lpConnected, lpSpoken, lpCaught, lpDuring>>
    /\ UNCHANGED outsideLoop

\* the returns of _process_segment: too quiet (242), no text (251), no
\* trigger (266), and the end of _respond (275, 284, 289)
LpReturn(u) ==
    /\ lpTask[u] \in {"start", "transcribe", "respond", "speak"}
    /\ Finally(u)
    /\ UNCHANGED <<lpReady, lpLoop, lpConnected, lpSpoken, lpCaught, lpDuring>>
    /\ UNCHANGED outsideLoop

\* an exception is raised in the try block (lines 236-289) and caught at
\* line 291
LpRaise(u) ==
    /\ lpTask[u] \in InFlight
    /\ Finally(u)
    /\ lpCaught' = lpCaught \cup {u}
    /\ UNCHANGED <<lpReady, lpLoop, lpConnected, lpSpoken, lpDuring>>
    /\ UNCHANGED outsideLoop

\* the text is the leave command (lines 363-365): leave_channel cancels the
\* loop, cleans up and removes the sink and disconnects; 'Goodbye!' is the
\* response
LpLeaveCommand(u) ==
    /\ lpTask[u] = "command"
    /\ lpConnected
    /\ lpLoop' = "cancelled"
    /\ lpConnected' = FALSE
    /\ lpReady' = {}
    /\ lpMarks' = {}
    /\ lpTask' = [lpTask EXCEPT ![u] = "respond"]
    /\ UNCHANGED <<lpSpoken, lpCaught, lpDuring>>
    /\ UNCHANGED outsideLoop

LoopNext ==
    \/ \E u \in SegUsers : LpSegmentReady(u)
    \/ LpTick
    \/ \E u \in SegUsers, chat \in BOOLEAN : LpAdvance(u, chat)
    \/ \E u \in SegUsers : LpReturn(u)
    \/ \E u \in SegUsers : LpRaise(u)
    \/ \E u \in SegUsers : LpLeaveCommand(u)

\* speaker b has a ready segment and is not being processed while the task
\* of speaker a is in flight, in a session that is up
ReadyBeside(a, b) ==
    /\ a # b
    /\ lpTask[a] \in InFlight
    /\ b \in lpReady /\ b \notin lpMarks
    /\ lpLoop = "running" /\ lpConnected

\* C38: while speaker A's segment is being transcribed or answered, the
\* loop can make its next pass, and a pass made while speaker B's segment is
\* ready hands B's segment off (marks B and creates B's task) and leaves A's
\* task where it is.
C38_Step ==
    \A a, b \in SegUsers :
        (ReadyBeside(a, b) /\ LpTick)
            => /\ lpTask'[b] = "start"
               /\ b \in lpMarks'
               /\ lpTask'[a] = lpTask[a]
C38_HandOffBesideTask ==
    /\ [](\A a, b \in SegUsers : ReadyBeside(a, b) => ENABLED LpTick)
    /\ [][C38_Step]_vars

\* speaker 2 was handed off while speaker 1's task ran, and both tasks are
\* at an await
C38_Witness ==
    /\ 2 \in lpDuring
    /\ lpTask[1] \in {"transcribe", "ai", "speak"}
    /\ lpTask[2] = "transcribe"

\* C39: an exception raised in a segment task ends that task only: the
\* loop and the voice session stay as they are, the other tasks go on, the
\* speaker's mark is released, and a ready segment of any speaker who is not
\* being processed can be handed off afterwards.
C39_Step ==
    \A u \in SegUsers :
        LpRaise(u)
            => /\ lpLoop' = lpLoop /\ lpConnected' = lpConnected
               /\ lpTask'[u] = "none"
               /\ \A v \in SegUsers \ {u} : lpTask'[v] = lpTask[v]
               /\ (lpConnected => u \notin lpMarks')
C39_ExceptionStaysInTask ==
    /\ [][C39_Step]_vars
    /\ [](\A u \in SegUsers :
            (u \in lpMarks /\ lpConnected) => lpTask[u] \in InFlight)
    /\ [](\A u \in SegUsers :
            (lpCaught # {} /\ lpLoop = "running" /\ lpConnected
             /\ u \in lpReady /\ lpTask[u] = "none") => ENABLED LpTick)

\* a task of speaker 1 ended in the except clause, the session is up, and a
\* later segment of speaker 1 is being answered
C39_Witness ==
    /\ 1 \in lpCaught
    /\ lpLoop = "running" /\ lpConnected
    /\ lpTask[1] = "respond"

\* ========================================================================
\* Specifications
\* ========================================================================
\* the auth record and the voice connection at rest
AuthQuiet == AuthInit /\ guilds = {}

\* the components added after the first nine, at rest
\* the components added last, at rest
\* the components added at the end, at rest
EndQuiet == SnapInit /\ BsInit /\ ModInit /\ LoopInit

TailQuiet == StopInit /\ ToggleInit /\ EndQuiet

LateQuiet == WakeInit /\ MuteInit /\ FleetInit /\ FailInit /\ SegInit /\ TailQuiet

\* the components added to the four above, at rest
RestQuiet ==
    /\ TtsInit /\ ReactInit /\ GateInit /\ recording = FALSE /\ CmdInit /\ BootInit
    /\ LateQuiet

InitSink == SinkInit /\ AuthQuiet /\ VoiceInit /\ RestQuiet
SpecSink == InitSink /\ [][SinkNext]_vars

InitAuth == AuthInit /\ SinkInit /\ VoiceInit /\ RestQuiet
SpecAuth == InitAuth /\ [][AuthNext]_vars

\* the save queue and its worker with the histories of the lists kept
SaveNext ==
    \/ \E g \in Guilds, a, m \in AuthUsers : BlacklistUser(g, a, m)
    \/ \E g \in Guilds, a, m \in AuthUsers : UnblacklistUser(g, a, m)
    \/ \E g \in Guilds : OnGuildJoin(g)
    \/ \E g \in Guilds : OnGuildRemoveMark(g)
    \/ OnGuildRemoveDelete
    \/ WorkerGet
    \/ WorkerCheck
    \/ WorkerPayload
    \/ WorkerInit
    \/ WorkerWrite
    \/ WorkerFinally

InitSave ==
    /\ AuthInit /\ recording = TRUE
    /\ SinkInit /\ VoiceInit /\ TtsInit /\ ReactInit /\ GateInit /\ CmdInit /\ BootInit
    /\ LateQuiet
SpecSave == InitSave /\ [][SaveNext]_vars

InitPerm == PermInit /\ SinkInit /\ VoiceInit /\ RestQuiet
SpecPerm == InitPerm /\ [][PermNext]_vars

InitVoice == VoiceInit /\ SinkInit /\ AuthQuiet /\ RestQuiet

InitTts ==
    /\ TtsInit /\ SinkInit /\ AuthQuiet /\ VoiceInit /\ ReactInit /\ GateInit
    /\ recording = FALSE /\ CmdInit /\ BootInit
    /\ LateQuiet
SpecTts == InitTts /\ [][TtsNext]_vars
SpecVoice == InitVoice /\ [][VoiceNext]_vars

InitReact ==
    /\ ReactInit /\ AuthInit /\ guilds = {ReactGuild} /\ recording = FALSE
    /\ SinkInit /\ VoiceInit /\ TtsInit /\ GateInit /\ CmdInit /\ BootInit
    /\ LateQuiet
SpecReact == InitReact /\ [][ReactNext]_vars

InitGate ==
    /\ GateInit /\ AuthInit /\ guilds = Guilds /\ recording = FALSE
    /\ SinkInit /\ VoiceInit /\ TtsInit /\ ReactInit /\ CmdInit /\ BootInit
    /\ LateQuiet
SpecGate == InitGate /\ [][GateNext]_vars

InitCmd ==
    /\ CmdInit /\ SinkInit /\ AuthQuiet /\ VoiceInit
    /\ TtsInit /\ ReactInit /\ GateInit /\ recording = FALSE /\ BootInit
    /\ LateQuiet
SpecCmd == InitCmd /\ [][CmdNext]_vars

InitBoot ==
    /\ BootInit /\ SinkInit /\ AuthQuiet /\ VoiceInit
    /\ TtsInit /\ ReactInit /\ GateInit /\ recording = FALSE /\ CmdInit
    /\ LateQuiet
SpecBoot == InitBoot /\ [][BootNext]_vars

\* every text the transcription can return, up to MaxAtoms atoms
InitWake ==
    /\ wkText \in Texts /\ wkPc = "heard" /\ wkHas = FALSE /\ wkCmd = <<>>
    /\ SinkInit /\ AuthQuiet /\ VoiceInit
    /\ TtsInit /\ ReactInit /\ GateInit /\ recording = FALSE /\ CmdInit /\ BootInit
    /\ MuteInit /\ FleetInit /\ FailInit /\ SegInit /\ TailQuiet
SpecWake == InitWake /\ [][WakeNext]_vars

\* the base of every specification of a component added after the first nine
BaseQuiet ==
    /\ SinkInit /\ AuthQuiet /\ VoiceInit
    /\ TtsInit /\ ReactInit /\ GateInit /\ recording = FALSE /\ CmdInit /\ BootInit

\* any order of the member cache, any permission of the speaker
Permutations3 == {o \in [1..3 -> GuildMembers] : \A i, j \in 1..3 : o[i] = o[j] => i = j}
InitMute ==
    /\ guild_members \in Permutations3
    /\ can_mute \in BOOLEAN
    /\ in_voice = {Carol} /\ muted = {} /\ muResp = NoResp
    /\ BaseQuiet /\ WakeInit /\ FleetInit /\ FailInit /\ SegInit /\ TailQuiet
SpecMute == InitMute /\ [][MuteNext]_vars

InitFleet == FleetInit /\ BaseQuiet /\ WakeInit /\ MuteInit /\ FailInit /\ SegInit /\ TailQuiet
SpecFleet == InitFleet /\ [][FleetNext]_vars

\* the save queue and its worker with store writes that may raise
FailNext ==
    \/ \E g \in Guilds, a, m \in AuthUsers : BlacklistUser(g, a, m)
    \/ \E g \in Guilds, a, m \in AuthUsers : UnblacklistUser(g, a, m)
    \/ \E g \in Guilds, a, m \in AuthUsers : AddAdmin(g, a, m)
    \/ \E g \in Guilds, a, m \in AuthUsers : RemoveAdmin(g, a, m)
    \/ WorkerGet
    \/ WorkerSaveGlobal
    \/ WorkerSaveGlobalFails
    \/ WorkerCheck
    \/ WorkerPayload
    \/ WorkerInit
    \/ WorkerWrite
    \/ WorkerWriteFails
    \/ WorkerFinally

InitFail ==
    /\ AuthInit /\ guilds = Guilds /\ recording = TRUE /\ FailInit
    /\ SinkInit /\ VoiceInit /\ TtsInit /\ ReactInit /\ GateInit /\ CmdInit /\ BootInit
    /\ WakeInit /\ MuteInit /\ FleetInit /\ SegInit /\ TailQuiet
SpecFail == InitFail /\ [][FailNext]_vars

InitSeg == SegInit /\ BaseQuiet /\ WakeInit /\ MuteInit /\ FleetInit /\ FailInit /\ TailQuiet
SpecSeg == InitSeg /\ [][SegNext]_vars

\* every component but the last ones, at rest
BeforeTailQuiet == BaseQuiet /\ WakeInit /\ MuteInit /\ FleetInit /\ FailInit /\ SegInit

\* any number of operations queued when the shutdown begins; the event loop
\* and the timers run, the worker thread may be blocked in its storage write
InitStop ==
    /\ StopInit
    /\ BeforeTailQuiet /\ ToggleInit /\ EndQuiet
\* the record as loaded, with or without records under the legacy "_global"
\* key, and any set of admins
InitToggle ==
    /\ guilds = Guilds
    /\ admins \in SUBSET (AuthUsers \ {BotOwner})
    /\ blacklisted = EmptyMap
    /\ command_overrides \in LegacyOverrides
    /\ save_queue = <<>>
    /\ queued_save_ops = {}
    /\ deleted_guilds = {}
    /\ store_guild = [g \in Guilds |-> AbsentDb]
    /\ store_admins = {}
    /\ kPc = "idle" /\ kOp = GlobalOp /\ kLive = FALSE /\ kVal = {}
    /\ qSnap = <<>> /\ kSnap = {} /\ kSeen = {}
    /\ evPc = "idle" /\ evGuild = "None"
    /\ lastCheck = [guild |-> "None", cmd |-> "None", author |-> 0, roles |-> {},
                    allowed |-> TRUE]
    /\ enqPending = {}
    /\ removed = {}
    /\ ownerActed = FALSE
    /\ SinkInit /\ VoiceInit
    /\ TtsInit /\ ReactInit /\ GateInit /\ recording = FALSE /\ CmdInit /\ BootInit
    /\ WakeInit /\ MuteInit /\ FleetInit /\ FailInit /\ SegInit
    /\ StopInit /\ ToggleInit /\ EndQuiet
SpecToggle == InitToggle /\ [][ToggleNext]_vars

\* an empty backup root and any retention count
InitSnap ==
    /\ \E keep \in KeepValues : SnapStart(keep)
    /\ BeforeTailQuiet /\ StopInit /\ ToggleInit /\ BsInit /\ ModInit /\ LoopInit
SpecSnap == InitSnap /\ [][SnapNext]_vars

\* AuthCog.__init__ has loaded the record from the backend, or has migrated
\* auth_data.json into an empty backend and enqueued its save operations
InitOrphan ==
    /\ \E active \in SUBSET MemberKeys, disk \in SUBSET BsKeys :
          \/ \E mem \in SUBSET disk : BsStart(active, mem, disk, <<>>)
          \/ \E mem \in SUBSET BsKeys : \E order \in Orders(mem) :
                BsStart(active, mem, disk, <<GlobalOp>> \o GuildOps(order))
    /\ BeforeTailQuiet /\ StopInit /\ ToggleInit /\ SnapInit /\ ModInit /\ LoopInit
SpecOrphan == InitOrphan /\ [][BsNext]_vars

InitMod ==
    ModInit /\ BeforeTailQuiet /\ StopInit /\ ToggleInit /\ SnapInit /\ BsInit /\ LoopInit
SpecMod == InitMod /\ [][ModNext]_vars

InitLoop ==
    LoopInit /\ BeforeTailQuiet /\ StopInit /\ ToggleInit /\ SnapInit /\ BsInit /\ ModInit
SpecLoop == InitLoop /\ [][LoopNext]_vars

SpecStop ==
    /\ InitStop /\ [][StopNext]_vars
    /\ WF_vars(UnloadJoinDone) /\ WF_vars(UnloadWorkerJoinDone)
    /\ WF_vars(FlushDone) /\ WF_vars(StopTick)

Init == SinkInit /\ AuthInit /\ VoiceInit /\ RestQuiet

Next ==
    \/ SinkNext
    \/ AuthNext
    \/ PermNext
    \/ VoiceNext
    \/ TtsNext
    \/ ReactNext
    \/ GateNext
    \/ SaveNext
    \/ CmdNext
    \/ BootNext
    \/ WakeNext
    \/ MuteNext
    \/ FleetNext
    \/ FailNext
    \/ SegNext
    \/ StopNext
    \/ ToggleNext
    \/ SnapNext
    \/ BsNext
    \/ ModNext
    \/ LoopNext

Spec == Init /\ [][Next]_vars
====
